---------------------------- MODULE Spec2Model ----------------------------
(***************************************************************************)
(* Model of the practice-session server of RealTimeSpeakingPartner:        *)
(* the /api/session/start, /api/session/chat, /api/session/end,           *)
(* /api/auth/login and /api/auth/logout handlers of src/src/server.ts      *)
(* with the module-level state they share,                                 *)
(* AIEngine (src/src/engines/AIEngine.ts), the session report of           *)
(* FeedbackEngine (src/src/engines/FeedbackEngine.ts), SessionController   *)
(* (src/unnamed/part_002), TopicManager (src/unnamed/part_003) with the    *)
(* in-memory Database, and the repositories the handlers await.            *)
(*                                                                         *)
(* A handler is an async function: it runs without interruption up to an   *)
(* await, and other requests' steps may run before it resumes.  Every      *)
(* action below is one such uninterrupted piece.                           *)
(*                                                                         *)
(* Text is modelled as a sequence of tokens (words, punctuation marks,     *)
(* the quotation mark, bold-marked words); String.includes is containment  *)
(* of a contiguous token sequence, so phrases are matched at word          *)
(* boundaries.                                                             *)
(***************************************************************************)
EXTENDS Integers, Sequences, FiniteSets, TLC

(***************************************************************************)
(* Bounds of the model.                                                    *)
(***************************************************************************)
\* requests that arrive in one behaviour of a server without MySQL
MaxRequests == 4
\* requests that arrive in one behaviour of a server with MySQL, where the
\* handlers await the database several times
MaxDbRequests == 3
\* requests that are being processed at the same time
MaxInFlight == 2
\* database calls that fail in one behaviour
MaxFailures == 1
\* turns of the session whose score is computed
MaxTurns == 40
\* practice sessions the SessionController creates
MaxSessions == 3
\* scores of one kind a session collects
MaxScores == 2
\* tokens that generateToken returns
MaxTokens == 3
\* topic ids the Database gives out
MaxTopics == 5

Users == {1, 2}

\* the values of generateToken
Tokens == 1..MaxTokens

\* "no value": null / undefined of the source, where a number is expected
NULL == -1

(***************************************************************************)
(* Text helpers                                                            *)
(***************************************************************************)
\* the quotation mark
Q == "\""

Range(s) == {s[i] : i \in 1..Len(s)}

MinOf(S) == CHOOSE x \in S : \A y \in S : x <= y

\* String.prototype.toLowerCase, token by token
LowerTok(t) ==
    CASE t = "I" -> "i"
      [] t = "It" -> "it"
      [] t = "I'm" -> "i'm"
      [] t = "That" -> "that"
      [] t = "Can" -> "can"
      [] t = "Use:" -> "use:"
      [] OTHER -> t

ToLower(s) == [i \in 1..Len(s) |-> LowerTok(s[i])]

\* does phrase p occur in s at position i
MatchAt(s, p, i) ==
    /\ i >= 1
    /\ i + Len(p) - 1 <= Len(s)
    /\ \A k \in 1..Len(p) : s[i + k - 1] = p[k]

\* String.prototype.includes for a phrase
Includes(s, p) == \E i \in 1..Len(s) : MatchAt(s, p, i)

\* bold-marked words: **w**
BoldWord(t) ==
    CASE t = "**was**" -> "was"
      [] t = "**had**" -> "had"
      [] t = "**went**" -> "went"
      [] t = "**is**" -> "is"
      [] t = "**are**" -> "are"
      [] t = "**made**" -> "made"
      [] t = "**o'clock**" -> "o'clock"
      [] OTHER -> ""

IsBold(t) == BoldWord(t) # ""

\* .replace(/\*\*/g, '')
StripBold(s) == [i \in 1..Len(s) |-> IF IsBold(s[i]) THEN BoldWord(s[i]) ELSE s[i]]

\* words that contain another word of the vocabulary as a substring
\* (String.includes works on characters, not on words)
SubWords(t) ==
    CASE t = "cooked" -> {"cooked", "cook"}
      [] t = "later" -> {"later", "ate", "late"}
      [] t = "this" -> {"this", "is"}
      [] OTHER -> {t}

\* String.prototype.includes for a single word, on characters
IncludesWord(s, w) == \E i \in 1..Len(s) : w \in SubWords(s[i])

(***************************************************************************)
(* Correction detection: server.ts, POST /api/session/chat                 *)
(***************************************************************************)
\* the ordered list of correction-indicator phrases
correctionPatterns ==
    << <<"instead", "of">>,
       <<"you", "could", "say">>,
       <<"you", "can", "say">>,
       <<"should", "be">>,
       <<"should", "say">>,
       <<"correct", "form">>,
       <<"correct", "way">>,
       <<"better", "to", "say">>,
       <<"more", "common", "to", "say">>,
       <<"it", "would", "be">>,
       <<"would", "be", ":">>,
       <<"small", "correction">>,
       <<"minor", "correction">>,
       <<"little", "correction">>,
       <<"let's", "work", "on">>,
       <<"let", "me", "help">>,
       <<"a", "few", "things", "to", "note">>,
       <<"things", "to", "note">>,
       <<"past", "tense">>,
       <<"present", "tense">>,
       <<"we", "use">>,
       <<"you", "need", "to", "use">>,
       <<"we", "need", "to", "use">>,
       <<"need", "a", "verb">>,
       <<"missing", "verb">>,
       <<"missing", "a", "verb">>,
       <<"use", "the", "right", "verb">>,
       <<Q, "was", Q, "vs">>,
       <<Q, "is", Q, "vs">>,
       <<"vs", ".", Q>>,
       <<"**was**">>,
       <<"**had**">>,
       <<"**went**">>,
       <<"**is**">>,
       <<"**are**">> >>

\* the for loop over correctionPatterns: the first pattern the lowercased
\* feedback includes, <<>> when none does
MatchedPattern(aiResponse) ==
    LET feedbackLower == ToLower(aiResponse)
        hits == {i \in 1..Len(correctionPatterns) :
                    Includes(feedbackLower, ToLower(correctionPatterns[i]))}
    IN  IF hits = {} THEN <<>> ELSE correctionPatterns[MinOf(hits)]

DetectedCorrection(aiResponse) == MatchedPattern(aiResponse) # <<>>

(***************************************************************************)
(* Fragment extraction: the cascade of regular expressions.  A regular     *)
(* expression matches at the leftmost position where it can match.         *)
(***************************************************************************)
Punct == {".", ",", "!", "?", ":"}

\* \w+ : a word (a bold-marked word counts with its marks stripped)
IsWord(t) == t \notin Punct /\ t # Q /\ t # "*"

\* the next quotation mark after position j, 0 when there is none
NextQ(s, j) ==
    LET later == {k \in (j + 1)..Len(s) : s[k] = Q}
    IN  IF later = {} THEN 0 ELSE MinOf(later)

\* "([^"]+)" matched at the quotation mark s[j]: the group, <<>> for no match
QuoteContent(s, j) ==
    IF j < 1 \/ j > Len(s) THEN <<>>
    ELSE IF s[j] # Q THEN <<>>
    ELSE IF NextQ(s, j) = 0 \/ NextQ(s, j) = j + 1 THEN <<>>
    ELSE SubSeq(s, j + 1, NextQ(s, j) - 1)

\* a quotation mark opens a quotation when an even number of marks precede it
\* (the text after an opening mark follows it directly, the text after a
\* closing mark is separated from it by a blank)
IsOpening(s, j) == Cardinality({k \in 1..(j - 1) : s[k] = Q}) % 2 = 0

\* [:\s]* : the first position from j on that holds no colon
SkipColons(s, j) == MinOf({k \in j..(Len(s) + 1) : k = Len(s) + 1 \/ s[k] # ":"})

\* (?:p1|p2)[:\s]*"([^"]+)" with flag i, or p\s*"([^"]+)" when colons is FALSE
PhraseThenQuote(s, phrases, colons) ==
    LET ls == ToLower(s)
        qpos(i, p) == IF colons THEN SkipColons(s, i + Len(p)) ELSE i + Len(p)
        ok(i, p) == MatchAt(ls, p, i) /\ QuoteContent(s, qpos(i, p)) # <<>>
        starts == {i \in 1..Len(s) : \E p \in phrases : ok(i, p)}
    IN  IF starts = {} THEN <<>>
        ELSE LET i == MinOf(starts)
                 p == CHOOSE x \in phrases : ok(i, x)
             IN  StripBold(QuoteContent(s, qpos(i, p)))

\* Pattern 0a
moreCommonMatch(aiResponse) ==
    PhraseThenQuote(aiResponse,
        {<<"more", "common", "to", "say">>, <<"would", "be", "more", "common">>}, TRUE)

\* Pattern 0b
wouldBeMatch(aiResponse) ==
    PhraseThenQuote(aiResponse, {<<"it", "would", "be">>, <<"would", "be">>}, TRUE)

RECURSIVE JoinWith(_, _)
\* Array.prototype.join
JoinWith(ws, sep) ==
    IF Len(ws) = 0 THEN <<>>
    ELSE IF Len(ws) = 1 THEN ws
    ELSE <<ws[1], sep>> \o JoinWith(Tail(ws), sep)

\* Pattern 0c: 'Use: ' followed by the bold-marked words
boldMatches(aiResponse) ==
    LET bold == SelectSeq(aiResponse, IsBold)
    IN  IF Len(bold) = 0 THEN <<>>
        ELSE <<"Use:">> \o JoinWith(StripBold(bold), ",")

\* the first character of the token is a capital I
StartsWithI(t) == t \in {"I", "It", "I'm"}

\* Pattern 1: "([I][^"]+[.!?])", case-sensitive
fullSentenceMatch(aiResponse) ==
    LET s == aiResponse
        ok(j) == LET c == QuoteContent(s, j)
                 IN  /\ c # <<>>
                     /\ IsOpening(s, j)
                     /\ StartsWithI(c[1])
                     /\ c[Len(c)] \in {".", "!", "?"}
                     /\ (Len(c) >= 3 \/ (Len(c) = 2 /\ c[1] # "I"))
        starts == {j \in 1..Len(s) : ok(j)}
    IN  IF starts = {} THEN <<>> ELSE StripBold(QuoteContent(s, MinOf(starts)))

\* Pattern 2
couldSayMatch(aiResponse) ==
    PhraseThenQuote(aiResponse, {<<"you", "could", "say">>}, FALSE)

\* Pattern 3: a quoted clause that contains one of the verbs
quotedMatch(aiResponse) ==
    LET s == aiResponse
        verbs == {"made", "making", "went", "goes", "is", "are", "was", "were"}
        ok(j) == LET c == ToLower(QuoteContent(s, j))
                 IN  \E v \in verbs : IncludesWord(StripBold(c), v)
        starts == {j \in 1..Len(s) : ok(j)}
    IN  IF starts = {} THEN <<>> ELSE StripBold(QuoteContent(s, MinOf(starts)))

\* Pattern 4: a quoted clause that contains "It was" or "It is"
itWasMatch(aiResponse) ==
    LET s == aiResponse
        ok(j) == LET c == ToLower(QuoteContent(s, j))
                 IN  Includes(c, <<"it", "was">>) \/ Includes(c, <<"it", "is">>)
        starts == {j \in 1..Len(s) : ok(j)}
    IN  IF starts = {} THEN <<>> ELSE StripBold(QuoteContent(s, MinOf(starts)))

\* Pattern 6: I'm about to <verb> [a|an] <noun>
aboutToMatch(aiResponse) ==
    LET s == aiResponse
        ls == ToLower(s)
        p == <<"i'm", "about", "to">>
        npos(i) == IF i + 4 <= Len(s) /\ ls[i + 4] \in {"a", "an"} /\ i + 5 <= Len(s)
                      /\ IsWord(s[i + 5])
                   THEN i + 5 ELSE i + 4
        ok(i) == /\ MatchAt(ls, p, i)
                 /\ i + 4 <= Len(s)
                 /\ IsWord(s[i + 3])
                 /\ IsWord(s[npos(i)])
        starts == {i \in 1..Len(s) : ok(i)}
    IN  IF starts = {} THEN <<>>
        ELSE LET i == MinOf(starts)
             IN  <<"I'm", "about", "to">> \o StripBold(<<s[i + 3]>>) \o <<"an">>
                    \o StripBold(<<s[npos(i)]>>)

\* Pattern 7: a bullet followed by a quoted clause
bulletQuoteMatch(aiResponse) ==
    LET s == aiResponse
        starts == {i \in 1..Len(s) : s[i] = "*" /\ QuoteContent(s, i + 1) # <<>>}
    IN  IF starts = {} THEN <<>> ELSE StripBold(QuoteContent(s, MinOf(starts) + 1))

\* the last pattern: should (be|say)\s*"?([^".,!?]+)
shouldBeMatch(aiResponse) ==
    LET s == aiResponse
        ls == ToLower(s)
        stop == {Q, ".", ",", "!", "?"}
        \* the phrase matches where a blank follows it
        ok(i) == /\ (MatchAt(ls, <<"should", "be">>, i) \/ MatchAt(ls, <<"should", "say">>, i))
                 /\ i + 2 <= Len(s)
                 /\ (s[i + 2] \notin stop \/ (s[i + 2] = Q /\ IsOpening(s, i + 2)))
        starts == {i \in 1..Len(s) : ok(i)}
        upto(b) == MinOf({k \in b..(Len(s) + 1) : k = Len(s) + 1 \/ s[k] \in stop})
    IN  IF starts = {} THEN <<>>
        ELSE LET i == MinOf(starts)
                 b == IF s[i + 2] = Q THEN i + 3 ELSE i + 2
             IN  StripBold(SubSeq(s, b, upto(b) - 1))

\* a cascade that tries the patterns from the last to the first
ExtractLastFirst(aiResponse) ==
    IF shouldBeMatch(aiResponse) # <<>> THEN shouldBeMatch(aiResponse)
    ELSE IF bulletQuoteMatch(aiResponse) # <<>> THEN bulletQuoteMatch(aiResponse)
    ELSE IF aboutToMatch(aiResponse) # <<>> THEN aboutToMatch(aiResponse)
    ELSE IF itWasMatch(aiResponse) # <<>> THEN itWasMatch(aiResponse)
    ELSE IF quotedMatch(aiResponse) # <<>> THEN quotedMatch(aiResponse)
    ELSE IF couldSayMatch(aiResponse) # <<>> THEN couldSayMatch(aiResponse)
    ELSE IF fullSentenceMatch(aiResponse) # <<>> THEN fullSentenceMatch(aiResponse)
    ELSE IF boldMatches(aiResponse) # <<>> THEN boldMatches(aiResponse)
    ELSE IF wouldBeMatch(aiResponse) # <<>> THEN wouldBeMatch(aiResponse)
    ELSE moreCommonMatch(aiResponse)

\* the cascade: each pattern is tried only while correctedText is empty
ExtractCorrectedText(aiResponse) ==
    IF moreCommonMatch(aiResponse) # <<>> THEN moreCommonMatch(aiResponse)
    ELSE IF wouldBeMatch(aiResponse) # <<>> THEN wouldBeMatch(aiResponse)
    ELSE IF boldMatches(aiResponse) # <<>> THEN boldMatches(aiResponse)
    ELSE IF fullSentenceMatch(aiResponse) # <<>> THEN fullSentenceMatch(aiResponse)
    ELSE IF couldSayMatch(aiResponse) # <<>> THEN couldSayMatch(aiResponse)
    ELSE IF quotedMatch(aiResponse) # <<>> THEN quotedMatch(aiResponse)
    ELSE IF itWasMatch(aiResponse) # <<>> THEN itWasMatch(aiResponse)
    ELSE IF aboutToMatch(aiResponse) # <<>> THEN aboutToMatch(aiResponse)
    ELSE IF bulletQuoteMatch(aiResponse) # <<>> THEN bulletQuoteMatch(aiResponse)
    ELSE shouldBeMatch(aiResponse)

(***************************************************************************)
(* Category assignment                                                     *)
(***************************************************************************)
verbTensePatterns ==
    << <<"cook", "cooked">>, <<"make", "made">>, <<"go", "went">>, <<"do", "did">>,
       <<"have", "had">>, <<"is", "was">>, <<"are", "were">>, <<"eat", "ate">>,
       <<"drink", "drank">>, <<"see", "saw">>, <<"come", "came">>, <<"take", "took">>,
       <<"get", "got">>, <<"buy", "bought">>, <<"think", "thought">>, <<"say", "said">>,
       <<"tell", "told">>, <<"give", "gave">>, <<"find", "found">>, <<"know", "knew">>,
       <<"put", "put">>, <<"run", "ran">>, <<"write", "wrote">>, <<"read", "read">>,
       <<"speak", "spoke">>, <<"meet", "met">>, <<"sit", "sat">>, <<"stand", "stood">>,
       <<"hear", "heard">>, <<"sleep", "slept">>, <<"wake", "woke">>, <<"begin", "began">>,
       <<"break", "broke">>, <<"bring", "brought">>, <<"build", "built">>,
       <<"catch", "caught">>, <<"choose", "chose">>, <<"draw", "drew">>,
       <<"drive", "drove">>, <<"fall", "fell">>, <<"feel", "felt">>, <<"fly", "flew">>,
       <<"forget", "forgot">>, <<"grow", "grew">>, <<"hang", "hung">>, <<"hold", "held">>,
       <<"keep", "kept">>, <<"leave", "left">>, <<"lend", "lent">>, <<"let", "let">>,
       <<"lie", "lay">>, <<"lose", "lost">>, <<"pay", "paid">>, <<"ride", "rode">>,
       <<"ring", "rang">>, <<"rise", "rose">>, <<"sell", "sold">>, <<"send", "sent">>,
       <<"shine", "shone">>, <<"show", "showed">>, <<"sing", "sang">>, <<"sink", "sank">>,
       <<"spend", "spent">>, <<"steal", "stole">>, <<"swim", "swam">>, <<"swing", "swung">>,
       <<"teach", "taught">>, <<"throw", "threw">>, <<"understand", "understood">>,
       <<"wear", "wore">>, <<"win", "won">> >>

wordChoicePatterns ==
    << <<"did", "made">>, <<"did", "had">>, <<"make", "do">>, <<"do", "make">>,
       <<"say", "tell">>, <<"tell", "say">>, <<"see", "watch">>, <<"watch", "see">>,
       <<"hear", "listen">>, <<"listen", "hear">>, <<"big", "large">>,
       <<"small", "little">>, <<"fast", "quick">> >>

\* a blank precedes / follows the token at position i
BlankBefore(s, i) == i > 1 /\ ~(s[i - 1] = Q /\ IsOpening(s, i - 1))
BlankAfter(s, i) ==
    /\ i < Len(s)
    /\ s[i + 1] \notin Punct
    /\ ~(s[i + 1] = Q /\ ~IsOpening(s, i + 1))

\* s.includes(' w ')
InsideWord(s, w) == \E i \in 1..Len(s) : s[i] = w /\ BlankBefore(s, i) /\ BlankAfter(s, i)
\* s.includes(' w' + mark)
WordBefore(s, w, mark) ==
    \E i \in 1..(Len(s) - 1) : s[i] = w /\ BlankBefore(s, i) /\ s[i + 1] = mark
\* s.startsWith(w + ' ')
StartsWithWord(s, w) == Len(s) >= 1 /\ s[1] = w /\ BlankAfter(s, 1)
\* s.endsWith(' ' + w)
EndsWithWord(s, w) == Len(s) >= 1 /\ s[Len(s)] = w /\ BlankBefore(s, Len(s))

isVerbTenseError(originalText, correctedText) ==
    LET origLower == ToLower(originalText)
        corrLower == ToLower(correctedText)
    IN  \E k \in 1..Len(verbTensePatterns) :
            LET base == verbTensePatterns[k][1]
                past == verbTensePatterns[k][2]
            IN  \/ /\ \/ InsideWord(origLower, base)
                      \/ WordBefore(origLower, base, ".")
                      \/ WordBefore(origLower, base, ",")
                      \/ StartsWithWord(origLower, base)
                      \/ EndsWithWord(origLower, base)
                   /\ (IncludesWord(corrLower, past) \/ IncludesWord(corrLower, past \o "ed"))
                \/ /\ InsideWord(origLower, base)
                   /\ IncludesWord(corrLower, base \o "ed")

isWordChoiceError(originalText, correctedText) ==
    LET origLower == ToLower(originalText)
        corrLower == ToLower(correctedText)
    IN  \E k \in 1..Len(wordChoicePatterns) :
            LET wrong == wordChoicePatterns[k][1]
                correct == wordChoicePatterns[k][2]
            IN  /\ (InsideWord(origLower, wrong) \/ WordBefore(origLower, wrong, "."))
                /\ IncludesWord(corrLower, correct)

\* the branch of the if / else-if chain that determines the error type
ErrorTypeBranch(text, aiResponse) ==
    LET feedbackLower == ToLower(aiResponse)
        matchedPattern == MatchedPattern(aiResponse)
        correctedText == ExtractCorrectedText(aiResponse)
    IN  IF \/ Includes(matchedPattern, <<"need", "to", "use">>)
           \/ Includes(matchedPattern, <<"verb">>)
           \/ Includes(matchedPattern, <<"missing">>)
           \/ Includes(matchedPattern, <<"right", "verb">>)
           \/ Includes(feedbackLower, <<"need", "a", "verb">>)
           \/ Includes(feedbackLower, <<"missing", "verb">>)
           \/ Includes(feedbackLower, <<"use", "the", "right", "verb">>)
           \/ Includes(feedbackLower, <<"we", "need", "to", "use">>)
        THEN "missing_verb"
        ELSE IF \/ Includes(matchedPattern, <<"tense">>)
                \/ matchedPattern = <<"**had**">>
                \/ matchedPattern = <<"**was**">>
                \/ matchedPattern = <<"**went**">>
                \/ Includes(feedbackLower, <<"past", "tense">>)
                \/ Includes(feedbackLower, <<"present", "tense">>)
                \/ Includes(feedbackLower, <<Q, "was", Q, "vs">>)
                \/ Includes(feedbackLower, <<Q, "is", Q, "vs">>)
                \/ Includes(feedbackLower, <<"we", "use", Q, "was", Q>>)
                \/ Includes(feedbackLower, <<"we", "use", Q, "had", Q>>)
                \/ Includes(feedbackLower, <<"already", "happened">>)
                \/ Includes(feedbackLower, <<"since", "the">>)
                \/ Includes(feedbackLower, <<"because", "it", "already">>)
        THEN "tense"
        ELSE IF IncludesWord(feedbackLower, "article") THEN "article"
        ELSE IF IncludesWord(feedbackLower, "preposition") THEN "preposition"
        ELSE IF isVerbTenseError(text, correctedText) THEN "verb_pair"
        ELSE IF isWordChoiceError(text, correctedText) THEN "word_choice"
        ELSE IF \/ Includes(matchedPattern, <<"smoother">>)
                \/ Includes(matchedPattern, <<"natural">>)
                \/ Includes(feedbackLower, <<"more", "natural">>)
                \/ Includes(feedbackLower, <<"sounds", "better">>)
        THEN "fluency"
        ELSE IF \/ Includes(matchedPattern, <<"more", "common">>)
                \/ Includes(feedbackLower, <<"more", "common">>)
        THEN "more_common"
        ELSE "default"

\* errorSubType and grammarCategory assigned in that branch
BranchCategory(branch) ==
    CASE branch = "missing_verb" -> "grammar_sentence_structure"
      [] branch = "tense" -> "grammar_tense_verb"
      [] branch = "article" -> "prepositions_articles"
      [] branch = "preposition" -> "prepositions_articles"
      [] branch = "verb_pair" -> "grammar_tense_verb"
      [] branch = "word_choice" -> "vocabulary_word_choice"
      [] branch = "fluency" -> "fluency_naturalness"
      [] branch = "more_common" -> "grammar_tense_verb"
      [] OTHER -> "grammar_sentence_structure"

\* shortFeedback assigned in that branch
BranchShortFeedback(branch) ==
    CASE branch = "missing_verb" -> "Grammar error: Missing verb"
      [] branch = "tense" -> "Grammar error: Verb tense"
      [] branch = "article" -> "Grammar error: Article usage"
      [] branch = "preposition" -> "Grammar error: Preposition"
      [] branch = "verb_pair" -> "Grammar error: Verb tense"
      [] branch = "word_choice" -> "Vocabulary: Word choice"
      [] branch = "fluency" -> "Suggestion: More natural phrasing"
      [] branch = "more_common" -> "Grammar suggestion: Common usage"
      [] OTHER -> "Grammar correction suggested"

(***************************************************************************)
(* Classification of a turn: the synchronous part of the chat handler     *)
(* between the AI call and the persistence calls.                          *)
(***************************************************************************)
\* JavaScript truthiness of a number-or-null
Truthy(x) == x # NULL /\ x # 0

\* a handler without the structured branch
StructuredIgnored(analysis) == FALSE

\* the structured branch: "mistakes.length > 0 && mistakes[0].original_text &&
\* mistakes[0].corrected_text"
UsesStructured(analysis) ==
    /\ Len(analysis.mistakes) > 0
    /\ analysis.mistakes[1].original_text # <<>>
    /\ analysis.mistakes[1].corrected_text # <<>>

\* a handler without the extraction branch
NeverExtracts(analysis, detectedCorrection) == FALSE

\* the extraction branch (the else-if)
UsesExtraction(analysis, detectedCorrection) ==
    /\ ~UsesStructured(analysis)
    /\ detectedCorrection
    /\ analysis.sentence_status = "correct"
    /\ Len(analysis.mistakes) = 0

\* mistakes.map(...) of the structured branch; analysis.grammar_category is
\* not a field AIEngine returns, so grammarCategory is null there
NormalizeMistake(m) ==
    [category |-> IF m.category # "" THEN m.category ELSE "grammar",
     grammar_category |-> IF m.grammar_category # "" THEN m.grammar_category ELSE "general",
     original_text |-> m.original_text,
     corrected_text |-> m.corrected_text,
     severity |-> "medium"]

\* a mistake built without the placeholder
ExtractedAsFound(text, cat, correctedText) ==
    [category |-> cat,
     grammar_category |-> cat,
     original_text |-> text,
     corrected_text |-> correctedText,
     severity |-> "medium"]

\* the mistake the extraction branch builds
ExtractedMistake(text, cat, correctedText) ==
    [category |-> cat,
     grammar_category |-> cat,
     original_text |-> text,
     corrected_text |-> IF correctedText # <<>> THEN correctedText
                        ELSE <<"See AI suggestion in the response">>,
     severity |-> "medium"]

\* a rule that counts every turn as incorrect
CountsEveryTurn(hadCorrection, grammarCategory, errorSubType) == TRUE

\* the rule without its exception for fluency suggestions
CountsEveryCorrection(hadCorrection, grammarCategory, errorSubType) == hadCorrection

\* "hadCorrection && !isFlencyOnly"
CountsAsIncorrect(hadCorrection, grammarCategory, errorSubType) ==
    LET isFlencyOnly == grammarCategory = "fluency_naturalness"
                            \/ errorSubType = "fluency_naturalness"
    IN  hadCorrection /\ ~isFlencyOnly

\* the handler's locals once the turn is classified, given what the three
\* scans of the feedback text yield
ClassifyWith(text, analysis, detectedCorrection, branch, correctedText) ==
    LET structured == UsesStructured(analysis)
        extraction == UsesExtraction(analysis, detectedCorrection)
        sentenceStatus == IF extraction THEN "has_errors" ELSE analysis.sentence_status
        grammarCategory == IF extraction THEN BranchCategory(branch) ELSE ""
        errorSubType == IF extraction THEN BranchCategory(branch) ELSE "general"
        mistakes == IF structured
                    THEN [i \in 1..Len(analysis.mistakes) |-> NormalizeMistake(analysis.mistakes[i])]
                    ELSE IF extraction
                    THEN <<ExtractedMistake(text, BranchCategory(branch), correctedText)>>
                    ELSE analysis.mistakes
        assigned == IF extraction THEN BranchShortFeedback(branch) ELSE ""
        shortFeedback == IF assigned # "" THEN assigned
                         ELSE IF sentenceStatus = "has_errors" \/ Len(mistakes) > 0
                         THEN "Grammar issue detected"
                         ELSE "Perfect! No grammar mistakes detected."
        feedbackType == IF assigned # ""
                        THEN (IF branch = "fluency" THEN "info" ELSE "warning")
                        ELSE IF sentenceStatus = "has_errors" \/ Len(mistakes) > 0
                        THEN "warning" ELSE "success"
        hadCorrection == sentenceStatus = "has_errors" \/ Len(mistakes) > 0 \/ detectedCorrection
    IN  [aiResponse |-> analysis.feedback,
         sentenceStatus |-> sentenceStatus,
         mistakes |-> mistakes,
         shortFeedback |-> shortFeedback,
         feedbackType |-> feedbackType,
         grammarCategory |-> grammarCategory,
         errorSubType |-> errorSubType,
         hadCorrection |-> hadCorrection,
         countsAsIncorrect |-> CountsAsIncorrect(hadCorrection, grammarCategory, errorSubType)]

\* the classification of a turn from the user's text and the analysis
Classify(text, analysis) ==
    ClassifyWith(text, analysis,
                 DetectedCorrection(analysis.feedback),
                 ErrorTypeBranch(text, analysis.feedback),
                 ExtractCorrectedText(analysis.feedback))

\* Numbers are IEEE 754 doubles.  A positive one is kept as its 53-digit
\* binary significand, cut into three limbs of 17, 18 and 18 digits, and the
\* exponent of the last digit:
\*     value = (hi * Limb^2 + mid * Limb + lo) * 2^exp,  2^16 <= hi < 2^17
\* The operations are functions of such records.
Limb == 2^18
Double == [hi : Nat, mid : Nat, lo : Nat, exp : Int]

\* the next significand up
Successor ==
    [x \in Double |->
    IF x.lo + 1 < Limb THEN [x EXCEPT !.lo = @ + 1]
    ELSE IF x.mid + 1 < Limb THEN [x EXCEPT !.lo = 0, !.mid = @ + 1]
    ELSE IF x.hi + 1 < 2^17 THEN [x EXCEPT !.lo = 0, !.mid = 0, !.hi = @ + 1]
    ELSE [hi |-> 2^16, mid |-> 0, lo |-> 0, exp |-> x.exp + 1]]

\* round to nearest, ties to even: x is the exact value cut off, low is what
\* was cut off and half is half a unit of the last digit kept
RoundEven ==
    [x \in Double, low \in Nat, half \in Nat |->
        IF low > half \/ (low = half /\ x.lo % 2 = 1) THEN Successor[x] ELSE x]

RECURSIVE ScaleUp(_, _)
\* the least j with c * 2^j >= t
ScaleUp(c, t) == IF c >= t THEN 0 ELSE 1 + ScaleUp(2 * c, t)

RECURSIVE ScaleDown(_, _)
\* the greatest k with t * 2^k <= c, for c >= t
ScaleDown(c, t) == IF 2 * t > c THEN 0 ELSE 1 + ScaleDown(c, 2 * t)

\* the double c / t for positive integers c and t: long division of
\* n / d = 1.xxx, 18 digits at a time, rounded after the 52nd
Divide ==
    [c \in Nat, t \in Nat |->
    LET j == ScaleUp(c, t)
        k == ScaleDown(c * 2^j, t)
        n == c * 2^j
        d == t * 2^k
        d1 == ((n - d) * Limb) \div d
        r1 == ((n - d) * Limb) % d
        d2 == (r1 * Limb) \div d
        r2 == (r1 * Limb) % d
        d3 == (r2 * Limb) \div d
        r3 == (r2 * Limb) % d
    IN  RoundEven[[hi |-> 2^16 + d1 \div 4,
                   mid |-> (d1 % 4) * 2^16 + d2 \div 4,
                   lo |-> (d2 % 4) * 2^16 + d3 \div 4,
                   exp |-> k - j - 52],
                  2 * (d3 % 4) + (IF r3 # 0 THEN 1 ELSE 0), 4]]

RECURSIVE BitLength(_)
\* the number of binary digits of a natural number
BitLength(n) == IF n = 0 THEN 0 ELSE 1 + BitLength(n \div 2)

\* the double x * n for an integer n in 1..1000: the exact product, rounded
\* to 53 digits
Times ==
    [x \in Double, n \in Nat |->
    LET p0 == x.lo * n
        p1 == x.mid * n + p0 \div Limb
        p2 == x.hi * n + p1 \div Limb
        cut == BitLength(p2) - 17        \* digits to drop
    IN  RoundEven[[hi |-> p2 \div 2^cut,
                   mid |-> (p2 % 2^cut) * 2^(18 - cut) + (p1 % Limb) \div 2^cut,
                   lo |-> (p1 % 2^cut) * 2^(18 - cut) + (p0 % Limb) \div 2^cut,
                   exp |-> x.exp + cut],
                  2 * (p0 % 2^cut), 2^cut]]

\* Math.round of the double x between 2^-10 and 2^16, or of -x when
\* negative: the nearest integer, a tie going towards plus infinity
MathRound ==
    [x \in Double, negative \in BOOLEAN |->
    LET k == 0 - x.exp - 36              \* digits of hi after the binary point
        int == IF k > 17 THEN 0 ELSE x.hi \div 2^k
        half == k <= 17 /\ (x.hi \div 2^(k - 1)) % 2 = 1
        beyond == x.lo # 0 \/ x.mid # 0 \/ x.hi % 2^(k - 1) # 0
    IN  IF negative THEN 0 - (int + (IF half /\ beyond THEN 1 ELSE 0))
        ELSE int + (IF half THEN 1 ELSE 0)]

\* Math.round((correctCount / messageCount) * 100) for messageCount > 0
RoundedPercent(correctCount, messageCount) ==
    IF correctCount = 0 THEN 0
    ELSE IF correctCount > 0
    THEN MathRound[Times[Divide[correctCount, messageCount], 100], FALSE]
    ELSE MathRound[Times[Divide[0 - correctCount, messageCount], 100], TRUE]

\* serverScore and finalScore
Score(messageCount, incorrectCount) ==
    IF messageCount > 0
    THEN RoundedPercent(messageCount - incorrectCount, messageCount)
    ELSE 100

(***************************************************************************)
(* AIEngine                                                                *)
(***************************************************************************)
fallback == <<"That", "is", "interesting", "!", "Can", "you", "tell", "me", "more", "?">>

\* startConversation
AI_startConversation(e, sessionId) ==
    [e EXCEPT !.currentSessionId = sessionId,
              !.conversationHistory = <<>>,
              !.userMessageCount = 0,
              !.incorrectCount = 0,
              !.lastScore = 100,
              !.chat = FALSE]

\* recordUserMessage
AI_recordUserMessage(e, text) ==
    [e EXCEPT !.userMessageCount = @ + 1,
              !.conversationHistory = Append(@, <<"User:">> \o text)]

\* analyzeAndRespond up to "await this.chat.sendMessage(text)"
AI_beginAnalyze(e) == [e EXCEPT !.chat = TRUE]

\* a catch block that reports the failed call as a turn with errors
AnalysisOnErrorFlagged ==
    [sentence_status |-> "has_errors", mistakes |-> <<>>, feedback |-> fallback]

\* what analyzeAndRespond returns when the call fails (the catch block)
AnalysisOnError ==
    [sentence_status |-> "correct", mistakes |-> <<>>, feedback |-> fallback]

\* what analyzeAndRespond returns for the reply sendMessage resolved with
AnalysisOf(reply) ==
    IF reply.failed THEN AnalysisOnError
    ELSE [sentence_status |-> IF reply.sentence_status # "" THEN reply.sentence_status
                              ELSE "correct",
          mistakes |-> reply.mistakes,
          feedback |-> reply.feedback]

\* analyzeAndRespond after the await: history, incorrectCount, lastScore
AI_endAnalyze(e, reply) ==
    LET a == AnalysisOf(reply)
        isCorrect == a.sentence_status = "correct" /\ Len(a.mistakes) = 0
        ten == 100 - Len(a.mistakes) * 10
    IN  [e EXCEPT !.conversationHistory = Append(@, <<"AI:">> \o a.feedback),
                  !.incorrectCount = IF reply.failed \/ isCorrect THEN @ ELSE @ + 1,
                  !.lastScore = IF reply.failed THEN @
                                ELSE IF isCorrect THEN 100
                                ELSE IF ten > 60 THEN ten ELSE 60]

\* clearHistory
AI_clearHistory(e) == [e EXCEPT !.conversationHistory = <<>>, !.chat = FALSE]

(***************************************************************************)
(* FeedbackEngine: the session report                                      *)
(***************************************************************************)
\* no report returned yet
NoReport == [grammarScore |-> NULL, fluencyScore |-> NULL, overallScore |-> NULL,
             feedback |-> <<>>, suggestions |-> <<>>]

\* the engine after construction: no scores of the session, no report
NoFeedbackData == [grammarScores |-> <<>>, fluencyScores |-> <<>>, report |-> NoReport]

RECURSIVE SumOf(_)
\* scores.reduce((sum, score) => sum + score.value, 0)
SumOf(scores) == IF Len(scores) = 0 THEN 0 ELSE scores[1] + SumOf(Tail(scores))

\* Math.round(total / scores.length): the quotient of two small integers is
\* a half-integer exactly or farther from one than its rounding error
calculateAverageScore(scores) ==
    IF Len(scores) = 0 THEN 0
    ELSE (2 * SumOf(scores) + Len(scores)) \div (2 * Len(scores))

generateFeedback(grammar, fluency) ==
    << IF grammar >= 80 THEN "Excellent grammar usage!"
       ELSE IF grammar >= 60 THEN "Good grammar with some minor errors."
       ELSE "Pay more attention to grammar rules.",
       IF fluency >= 80 THEN "You speak fluently and naturally!"
       ELSE IF fluency >= 60 THEN "Your fluency is developing well."
       ELSE "Try to reduce hesitations for better fluency." >>

generateSuggestions(grammar, fluency) ==
    LET suggestions ==
            (IF grammar < 80
             THEN <<"Review basic grammar rules", "Practice forming complete sentences">>
             ELSE <<>>)
            \o (IF fluency < 80
                THEN <<"Practice speaking without long pauses",
                       "Read aloud daily to improve flow">>
                ELSE <<>>)
    IN  IF Len(suggestions) = 0
        THEN <<"Keep up the great work!", "Try more challenging topics">>
        ELSE suggestions

\* provideSessionFeedback for the session whose scores the engine e holds
provideSessionFeedback(e) ==
    LET grammar == IF Len(e.grammarScores) > 0 THEN calculateAverageScore(e.grammarScores)
                   ELSE 80
        fluency == IF Len(e.fluencyScores) > 0 THEN calculateAverageScore(e.fluencyScores)
                   ELSE 75
    IN  [grammarScore |-> grammar,
         fluencyScore |-> fluency,
         overallScore |-> (grammar + fluency + 1) \div 2,
         feedback |-> generateFeedback(grammar, fluency),
         suggestions |-> generateSuggestions(grammar, fluency)]

(***************************************************************************)
(* SessionController and the in-memory Database it uses                    *)
(***************************************************************************)
\* topics of the in-memory Database (initializeDefaultTopics)
MemTopics == {1, 2, 3, 4}
\* rows of the MySQL topics table
MySQLTopics == {1, 5}

\* conversationContext = null
NoContext == [sessionId |-> NULL, topicId |-> NULL]

\* setTopic
SC_setTopic(c, topicId) ==
    IF topicId \notin MemTopics THEN c
    ELSE [c EXCEPT !.currentTopicId = topicId,
                   !.conversationContext =
                        IF @ = NoContext THEN NoContext ELSE [@ EXCEPT !.topicId = topicId]]

\* startRecording; d is the in-memory Database
SC_startRecording(c, d) ==
    IF c.currentUser = NULL THEN c
    ELSE IF ~Truthy(c.currentTopicId) THEN c
    ELSE IF c.currentSession = NULL
    THEN [c EXCEPT !.currentSession = d.nextSessionId,
                   !.conversationContext = [sessionId |-> d.nextSessionId,
                                            topicId |-> c.currentTopicId],
                   !.isRecording = TRUE]
    ELSE [c EXCEPT !.isRecording = TRUE]

\* the Database after startRecording: generateSessionId and storeSession
DB_startRecording(c, d) ==
    IF c.currentUser # NULL /\ Truthy(c.currentTopicId) /\ c.currentSession = NULL
    THEN [d EXCEPT !.nextSessionId = @ + 1, !.sessions = @ \cup {d.nextSessionId}]
    ELSE d

\* a sessionEnded that leaves the recording flag as it is
SC_sessionEndedRecording(c) ==
    IF c.currentSession = NULL THEN c
    ELSE [c EXCEPT !.currentSession = NULL,
                   !.conversationContext = NoContext]

\* sessionEnded, the controller's own fields
SC_sessionEnded(c) ==
    IF c.currentSession = NULL THEN c
    ELSE [c EXCEPT !.isRecording = FALSE,
                   !.currentSession = NULL,
                   !.conversationContext = NoContext]

(***************************************************************************)
(* TopicManager and the topics of the in-memory Database                   *)
(***************************************************************************)
\* the Database after construction: initializeDefaultTopics stores four
\* active topics under the ids 1..4
NewDatabase ==
    [nextSessionId |-> 1, sessions |-> {}, nextTopicId |-> 5,
     topics |->
        [id \in MemTopics |->
            [name |-> <<"Daily Conversations", "Business English",
                        "Travel and Tourism", "Academic Discussions">>[id],
             description |->
                 <<"Practice everyday conversations and common phrases",
                   "Professional communication and workplace scenarios",
                   "Conversations for traveling and exploring new places",
                   "Complex discussions on academic and scientific topics">>[id],
             difficulty |-> <<"Beginner", "Intermediate", "Beginner", "Advanced">>[id],
             category |-> <<"General", "Business", "Travel", "Academic">>[id],
             isActive |-> TRUE]]]

\* topics.set(topicId, topic)
SetTopicRow(topics, topicId, topic) ==
    [id \in DOMAIN topics \cup {topicId} |-> IF id = topicId THEN topic ELSE topics[id]]

\* validateTopic (no name, description or category here is blank without
\* being empty)
validateTopic(topic) ==
    /\ topic.name # ""
    /\ topic.description # ""
    /\ topic.difficulty \in {"Beginner", "Intermediate", "Advanced"}
    /\ topic.category # ""

\* createTopic; topicId 0 stands for a topic without an id
TM_createTopic(d, topicId, topic) ==
    IF ~validateTopic(topic) THEN d
    ELSE IF ~Truthy(topicId)
    THEN [d EXCEPT !.nextTopicId = @ + 1,
                   !.topics = SetTopicRow(@, d.nextTopicId, [topic EXCEPT !.isActive = TRUE])]
    ELSE [d EXCEPT !.topics = SetTopicRow(@, topicId, [topic EXCEPT !.isActive = TRUE])]

\* updateTopic: the Database stores the topic it is given
TM_updateTopic(d, topicId, topic) ==
    IF topicId \notin DOMAIN d.topics THEN d
    ELSE IF ~validateTopic(topic) THEN d
    ELSE [d EXCEPT !.topics = SetTopicRow(@, topicId, topic)]

\* deleteTopic (soft delete)
TM_deleteTopic(d, topicId) ==
    IF topicId \notin DOMAIN d.topics THEN d
    ELSE [d EXCEPT !.topics[topicId].isActive = FALSE]

\* getAvailableTopics: fetchTopics('*'), the ids of the topics returned
getAvailableTopics(d) == {id \in DOMAIN d.topics : d.topics[id].isActive}

\* topics a caller passes: the topic of the admin demo, the same marked
\* inactive, one with an invalid difficulty and one without a name
TopicData ==
    LET newTopic == [name |-> "Technology and Innovation",
                     description |-> "Discuss latest tech trends and innovations",
                     difficulty |-> "Advanced", category |-> "Technology",
                     isActive |-> TRUE]
    IN  {newTopic, [newTopic EXCEPT !.isActive = FALSE],
         [newTopic EXCEPT !.difficulty = "Expert"], [newTopic EXCEPT !.name = ""]}

(***************************************************************************)
(* Inputs                                                                  *)
(***************************************************************************)
\* topicId of a start request: 0 stands for a missing topicId, 1 is a topic
\* of both stores, 5 a topic of the MySQL table only
TopicInputs == {0, 1, 5}

\* text of a chat request
UserTexts == { <<"i", "go", "home">> }

plainReply == <<"hi", "there", "!", "how", "are", "you", "?">>
couldSayReply == <<"you", "could", "say", Q, "I", "went", "home", ".", Q>>
naturalReply ==
    <<"it", "sounds", "more", "natural", ":", "you", "can", "say", Q, "see", "you", Q>>

\* a structured mistake as the AI reports it
fluencyMistake ==
    [original_text |-> <<"go", "home">>, corrected_text |-> <<"head", "home">>,
     category |-> "", grammar_category |-> "fluency_naturalness"]

\* a structured mistake with its own category and grammar category
tenseMistake ==
    [original_text |-> <<"go">>, corrected_text |-> <<"went">>,
     category |-> "grammar", grammar_category |-> "verb_tense"]

\* what chat.sendMessage can resolve with (after JSON parsing), or fail
AIReplies ==
    { [failed |-> TRUE, sentence_status |-> "", mistakes |-> <<>>, feedback |-> <<>>],
      [failed |-> FALSE, sentence_status |-> "", mistakes |-> <<>>, feedback |-> plainReply],
      [failed |-> FALSE, sentence_status |-> "correct", mistakes |-> <<>>,
       feedback |-> couldSayReply],
      [failed |-> FALSE, sentence_status |-> "correct", mistakes |-> <<>>,
       feedback |-> naturalReply],
      [failed |-> FALSE, sentence_status |-> "has_errors",
       mistakes |-> <<fluencyMistake>>, feedback |-> plainReply],
      [failed |-> FALSE, sentence_status |-> "has_errors",
       mistakes |-> <<tenseMistake>>, feedback |-> couldSayReply],
      [failed |-> FALSE, sentence_status |-> "has_errors", mistakes |-> <<>>,
       feedback |-> plainReply] }


(***************************************************************************)
(* Inputs for the classification of a turn on its own: texts and replies   *)
(* that reach each branch of the extraction cascade and of the category    *)
(* assignment.                                                             *)
(***************************************************************************)
\* a text with the wrong word "did"
didText == <<"i", "did", "the", "breakfast">>

ClassifyTexts == UserTexts \cup {didText}

\* "more common to say" and, later in the text, "you could say"
bothReply ==
    <<"it", "is", "more", "common", "to", "say", Q, "I", "went", "home", ".", Q,
      "or", "you", "could", "say", Q, "I", "walked", "home", ".", Q>>
\* a bold-marked word and "you could say" with a clause that is no sentence
boldReply ==
    <<"use", "**went**", "here", ".", "you", "could", "say", Q, "we", "went", "home", Q>>
\* "I'm about to" and "should be"
aboutToReply ==
    <<"I'm", "about", "to", "eat", "apple", "?", "it", "should", "be", "an", "apple">>
\* an indicator phrase and nothing to extract
noFragmentReply == <<"remember", "the", "past", "tense", "here", "!">>
\* a substituted word
wordChoiceReply == <<"you", "could", "say", Q, "I", "made", "the", "breakfast", ".", Q>>
\* a substituted word and the keyword "article"
articleReply == wordChoiceReply \o <<"mind", "the", "article">>

\* a structured mistake without its original fragment
malformedMistake ==
    [original_text |-> <<>>, corrected_text |-> <<"went">>,
     category |-> "grammar", grammar_category |-> "verb_tense"]

\* a reply without structured mistakes, with the sentence status "correct"
TextReply(feedback) ==
    [failed |-> FALSE, sentence_status |-> "correct", mistakes |-> <<>>,
     feedback |-> feedback]

ClassifyReplies ==
    AIReplies \cup
    { TextReply(bothReply), TextReply(boldReply), TextReply(aboutToReply),
      TextReply(noFragmentReply),
      TextReply(wordChoiceReply), TextReply(articleReply),
      [failed |-> FALSE, sentence_status |-> "correct",
       mistakes |-> <<malformedMistake>>, feedback |-> couldSayReply],
      [failed |-> FALSE, sentence_status |-> "has_errors",
       mistakes |-> <<tenseMistake, malformedMistake>>, feedback |-> couldSayReply],
      [failed |-> FALSE, sentence_status |-> "correct",
       mistakes |-> <<tenseMistake>>, feedback |-> plainReply] }

\* the grammar or fluency scores a session has collected: none, one score,
\* or two scores whose average is rounded
SessionScores ==
    {<<>>, <<79, 80>>, <<59, 60>>}
        \cup {<<v>> : v \in {0, 30, 45, 59, 60, 61, 70, 75, 79, 80, 81, 90, 100}}
\* the turn for every text and reply: Classify is a function of its arguments
\* alone, and ChatAIDone looks the turn up here
TurnOf ==
    [text \in ClassifyTexts, reply \in ClassifyReplies |->
        Classify(text, AnalysisOf(reply))]

(***************************************************************************)
(* State                                                                   *)
(***************************************************************************)
VARIABLES
    mysqlAvailable,         \* server.ts: the MySQL connection was made at start-up
    tokenStore,             \* Map token -> TokenUser (its id), NULL when absent
    loggedInUsers,          \* Map token -> LoggedInUser (its userId), NULL when absent
    serverMessageCount,     \* server.ts module state
    serverIncorrectCount,
    currentConversationId,
    sessionStartTime,       \* TRUE when a Date is stored
    currentTopicInfo,       \* the topic's name, NoTopic for null
    currentUserLanguage,    \* its targetLanguage, "" when not loaded
    activeSessions,         \* Map userId -> session info
    aiEngine,               \* the AIEngine instance
    sessionController,      \* the SessionController instance
    feedbackEngine,         \* the FeedbackEngine instance and its last report
    database,               \* the in-memory Database instance
    mysql,                  \* the tables of the MySQL database
    req,                    \* the requests being handled: position and locals
    nreq,                   \* number of requests that have arrived
    lastResp,               \* the response sent last
    failures,               \* number of database calls that have failed
    sessionState,           \* observer: per user, Idle / Active / Ended
    turnsSubmitted,         \* observer: per user, chat calls recorded since start
    deletedTopics           \* observer: ids deleteTopic has deleted, not created anew

vars == <<mysqlAvailable, tokenStore, loggedInUsers, deletedTopics,
          serverMessageCount, serverIncorrectCount,
          currentConversationId, sessionStartTime, currentTopicInfo,
          currentUserLanguage, activeSessions, aiEngine, sessionController,
          feedbackEngine, database, mysql, req, nreq, lastResp, failures,
          sessionState, turnsSubmitted>>

NoTopic == ""
NoTurn == [aiResponse |-> <<>>, sentenceStatus |-> "", mistakes |-> <<>>,
           shortFeedback |-> "", feedbackType |-> "", grammarCategory |-> "",
           errorSubType |-> "", hadCorrection |-> FALSE, countsAsIncorrect |-> FALSE]

\* a request is handled in one of MaxInFlight slots
Requests == 1..MaxInFlight

NoRequest ==
    [kind |-> "none", user |-> 0, pc |-> "idle", topicId |-> 0,
     text |-> <<>>, conv |-> NULL, score |-> 0, turn |-> NoTurn, idx |-> 0,
     aiFailed |-> FALSE, sess |-> ""]

NoResponse ==
    [kind |-> "none", user |-> 0, sess |-> "", code |-> 0, score |-> 0,
     messagesCount |-> 0, incorrectCount |-> 0, turn |-> NoTurn, aiFailed |-> FALSE]

NoSession == [present |-> FALSE, conversationId |-> NULL]

Init ==
    /\ mysqlAvailable \in BOOLEAN
    /\ tokenStore = [token \in Tokens |-> NULL]
    /\ loggedInUsers = [token \in Tokens |-> NULL]
    /\ deletedTopics = {}
    /\ serverMessageCount = 0
    /\ serverIncorrectCount = 0
    /\ currentConversationId = NULL
    /\ sessionStartTime = FALSE
    /\ currentTopicInfo = NoTopic
    /\ currentUserLanguage = ""
    /\ activeSessions = [u \in Users |-> NoSession]
    /\ aiEngine = [conversationHistory |-> <<>>, chat |-> FALSE, currentSessionId |-> NULL,
                   userMessageCount |-> 0, incorrectCount |-> 0, lastScore |-> 100]
    /\ sessionController = [currentSession |-> NULL, currentUser |-> NULL,
                            currentTopicId |-> 0, isRecording |-> FALSE,
                            conversationContext |-> NoContext]
    /\ feedbackEngine = NoFeedbackData
    /\ database = NewDatabase
    /\ mysql = [conversations |-> <<>>, feedback_history |-> <<>>, grammar_mistakes |-> <<>>]
    /\ req = [r \in Requests |-> NoRequest]
    /\ nreq = 0
    /\ lastResp = NoResponse
    /\ failures = 0
    /\ sessionState = [u \in Users |-> "Idle"]
    /\ turnsSubmitted = [u \in Users |-> 0]

\* a database call settles: it succeeds, or fails while the behaviour's
\* failures are not used up
Outcome(ok) ==
    /\ ok \/ failures < MaxFailures
    /\ failures' = IF ok THEN failures ELSE failures + 1

\* a request arrives and takes the first free slot
Arrives(r) ==
    /\ nreq < (IF mysqlAvailable THEN MaxDbRequests ELSE MaxRequests)
    /\ req[r].pc = "idle"
    /\ \A k \in 1..(r - 1) : req[k].pc # "idle"
    /\ nreq' = nreq + 1
    /\ UNCHANGED failures

\* the record of a request that arrives
Arrival(kind, u) ==
    [NoRequest EXCEPT !.kind = kind, !.user = u, !.sess = sessionState[u]]

\* the response to request q
Response(q, code) ==
    [NoResponse EXCEPT !.kind = q.kind, !.user = q.user, !.sess = q.sess,
                       !.code = code]

\* res.json / res.status(code).json for the request q of slot r
Respond(r, q, code) ==
    /\ req' = [req EXCEPT ![r] = NoRequest]
    /\ lastResp' = Response(q, code)

ServerState == <<serverMessageCount, serverIncorrectCount, currentConversationId,
                 sessionStartTime, currentTopicInfo, currentUserLanguage,
                 activeSessions>>
Engines == <<aiEngine, sessionController, database, feedbackEngine>>
Observers == <<sessionState, turnsSubmitted>>

(***************************************************************************)
(* POST /api/session/start                                                 *)
(***************************************************************************)
\* name of a topic row / of a default topic
TopicName(t) ==
    CASE t = 1 -> "Daily Conversations"
      [] t = 2 -> "Business English"
      [] t = 3 -> "Travel and Tourism"
      [] t = 4 -> "Academic Discussions"
      [] OTHER -> "Job Interviews"

\* topicName after the two lookups: found says whether the MySQL lookup
\* returned a row
ResolvedTopicName(t, found) ==
    IF found THEN TopicName(t)
    ELSE IF t \in MemTopics THEN TopicName(t)
    ELSE "General Conversation"

\* from "currentTopicInfo = {...}" to the counters' reset
StartSession(u, t, topicName) ==
    LET c1 == SC_setTopic(sessionController, t)
        c2 == SC_startRecording(c1, database)
        sessionId == IF c2.currentSession = NULL THEN 0 ELSE c2.currentSession
    IN  /\ currentTopicInfo' = topicName
        /\ sessionController' = c2
        /\ database' = DB_startRecording(c1, database)
        /\ UNCHANGED feedbackEngine
        /\ aiEngine' = AI_startConversation(aiEngine, sessionId)
        /\ serverMessageCount' = 0
        /\ serverIncorrectCount' = 0
        /\ turnsSubmitted' = [turnsSubmitted EXCEPT ![u] = 0]

\* the response of start
StartRespond(r, q) ==
    /\ Respond(r, q, 200)
    /\ sessionState' = [sessionState EXCEPT ![q.user] = "Active"]

\* the request arrives; without MySQL the handler never awaits
StartArrive(r, u, t) ==
    /\ Arrives(r)
    /\ LET q == [Arrival("start", u) EXCEPT !.topicId = t]
       IN  IF t = 0
           THEN /\ Respond(r, q, 400)
                /\ UNCHANGED <<ServerState, Engines, Observers>>
           ELSE IF mysqlAvailable
           THEN /\ req' = [req EXCEPT ![r] = [q EXCEPT !.pc = "startUser"]]
                /\ UNCHANGED <<ServerState, Engines, Observers, lastResp>>
           ELSE /\ StartSession(u, t, ResolvedTopicName(t, FALSE))
                /\ StartRespond(r, q)
                /\ UNCHANGED <<currentConversationId, sessionStartTime,
                               currentUserLanguage, activeSessions>>
    /\ UNCHANGED <<mysqlAvailable, tokenStore, loggedInUsers, deletedTopics, mysql>>

\* userRepository.findById settles; a rejection is caught and logged
StartUserDone(r, ok) ==
    /\ req[r].pc = "startUser"
    /\ Outcome(ok)
    /\ currentUserLanguage' = IF ok THEN "English" ELSE currentUserLanguage
    /\ req' = [req EXCEPT ![r].pc = "startTopic"]
    /\ UNCHANGED <<mysqlAvailable, tokenStore, loggedInUsers, deletedTopics, serverMessageCount, serverIncorrectCount,
                   currentConversationId, sessionStartTime, currentTopicInfo,
                   activeSessions, Engines, mysql, nreq, lastResp, Observers>>

\* topicRepository.findById settles; the handler runs on to the await of
\* conversationRepository.create
StartTopicDone(r, ok) ==
    /\ req[r].pc = "startTopic"
    /\ Outcome(ok)
    /\ StartSession(req[r].user, req[r].topicId,
                    ResolvedTopicName(req[r].topicId,
                                      ok /\ req[r].topicId \in MySQLTopics))
    /\ req' = [req EXCEPT ![r].pc = "startCreate"]
    /\ UNCHANGED <<mysqlAvailable, tokenStore, loggedInUsers, deletedTopics, currentConversationId, sessionStartTime,
                   currentUserLanguage, activeSessions, mysql, nreq, lastResp,
                   sessionState>>

\* a new row of the conversations table
NewConversation(u) ==
    [user_id |-> u, status |-> "active", message_count |-> 0, overall_score |-> NULL]

\* "sessionStartTime = new Date()" to the response
StartFinish(r, conversationId) ==
    /\ sessionStartTime' = TRUE
    /\ activeSessions' = [activeSessions EXCEPT ![req[r].user] =
                              [present |-> TRUE, conversationId |-> conversationId]]
    /\ StartRespond(r, req[r])

\* conversationRepository.create settles: the INSERT and then the UPDATE of
\* the topic's usage_count; an error of either makes it return null
StartCreateDone(r, outcome) ==
    /\ req[r].pc = "startCreate"
    /\ Outcome(outcome = "created")
    /\ outcome \in {"created", "insert_failed", "update_failed"}
    /\ mysql' = IF outcome = "insert_failed" THEN mysql
                ELSE [mysql EXCEPT !.conversations = Append(@, NewConversation(req[r].user))]
    /\ LET id == IF outcome = "created" THEN Len(mysql.conversations) + 1 ELSE NULL
       IN  /\ currentConversationId' = id
           /\ IF Truthy(id)
              THEN /\ req' = [req EXCEPT ![r].pc = "startLang"]
                   /\ UNCHANGED <<sessionStartTime, activeSessions, lastResp,
                                  sessionState>>
              ELSE StartFinish(r, id)
    /\ UNCHANGED <<mysqlAvailable, tokenStore, loggedInUsers, deletedTopics, serverMessageCount, serverIncorrectCount,
                   currentTopicInfo, currentUserLanguage, Engines, nreq,
                   turnsSubmitted>>

\* updateTargetLanguage settles (a rejection is ignored)
StartLangDone(r) ==
    /\ req[r].pc = "startLang"
    /\ UNCHANGED failures
    /\ StartFinish(r, currentConversationId)
    /\ UNCHANGED <<mysqlAvailable, tokenStore, loggedInUsers, deletedTopics, serverMessageCount, serverIncorrectCount,
                   currentConversationId, currentTopicInfo, currentUserLanguage,
                   Engines, mysql, nreq, turnsSubmitted>>

(***************************************************************************)
(* POST /api/session/chat                                                  *)
(***************************************************************************)
\* res.json of chat: the counters are read when the response is built
ChatRespond(r, q, messageCount, incorrectCount) ==
    /\ req' = [req EXCEPT ![r] = NoRequest]
    /\ lastResp' = [Response(q, 200) EXCEPT
                        !.score = Score(messageCount, incorrectCount),
                        !.messagesCount = messageCount,
                        !.incorrectCount = incorrectCount,
                        !.turn = q.turn,
                        !.aiFailed = q.aiFailed]

\* "aiEngine.recordUserMessage(text); serverMessageCount++" and on to the
\* next await: incrementMessageCount when a conversation is current, else
\* chat.sendMessage inside analyzeAndRespond
ChatRecord(r, q) ==
    /\ serverMessageCount' = serverMessageCount + 1
    /\ turnsSubmitted' = [turnsSubmitted EXCEPT ![q.user] = @ + 1]
    /\ IF mysqlAvailable /\ Truthy(currentConversationId)
       THEN /\ aiEngine' = AI_recordUserMessage(aiEngine, q.text)
            /\ req' = [req EXCEPT ![r] = [q EXCEPT !.pc = "chatIncr",
                                                   !.conv = currentConversationId]]
       ELSE /\ aiEngine' = AI_beginAnalyze(AI_recordUserMessage(aiEngine, q.text))
            /\ req' = [req EXCEPT ![r] = [q EXCEPT !.pc = "chatAI"]]

\* a chat guard that lets every request through
SessionAssumed(topicInfo, controller) == FALSE

\* "!currentTopicInfo && !sessionController.isSessionRecording()"
NoActiveSession(topicInfo, controller) ==
    topicInfo = NoTopic /\ ~controller.isRecording

\* the request arrives
ChatArrive(r, u, text) ==
    /\ Arrives(r)
    /\ LET q == [Arrival("chat", u) EXCEPT !.text = text]
       IN  IF NoActiveSession(currentTopicInfo, sessionController)
           THEN /\ Respond(r, q, 400)
                /\ UNCHANGED <<serverMessageCount, aiEngine, turnsSubmitted>>
           ELSE IF currentUserLanguage = "" /\ mysqlAvailable
           THEN /\ req' = [req EXCEPT ![r] = [q EXCEPT !.pc = "chatUser"]]
                /\ UNCHANGED <<serverMessageCount, aiEngine, turnsSubmitted, lastResp>>
           ELSE /\ ChatRecord(r, q)
                /\ UNCHANGED lastResp
    /\ UNCHANGED <<mysqlAvailable, tokenStore, loggedInUsers, deletedTopics, serverIncorrectCount, currentConversationId,
                   sessionStartTime, currentTopicInfo, currentUserLanguage,
                   activeSessions, sessionController, database, feedbackEngine,
                   mysql, sessionState>>

\* userRepository.findById settles; a rejection is caught and logged
ChatUserDone(r, ok) ==
    /\ req[r].pc = "chatUser"
    /\ Outcome(ok)
    /\ currentUserLanguage' = IF ok THEN "English" ELSE currentUserLanguage
    /\ ChatRecord(r, req[r])
    /\ UNCHANGED <<mysqlAvailable, tokenStore, loggedInUsers, deletedTopics, serverIncorrectCount, currentConversationId,
                   sessionStartTime, currentTopicInfo, activeSessions,
                   sessionController, database, feedbackEngine, mysql, nreq, lastResp,
                   sessionState>>

\* conversationRepository.incrementMessageCount settles; a rejection reaches
\* the handler's outer catch
ChatIncrDone(r, ok) ==
    /\ req[r].pc = "chatIncr"
    /\ Outcome(ok)
    /\ IF ok
       THEN /\ mysql' = [mysql EXCEPT !.conversations[req[r].conv].message_count = @ + 1]
            /\ aiEngine' = AI_beginAnalyze(aiEngine)
            /\ req' = [req EXCEPT ![r].pc = "chatAI"]
            /\ UNCHANGED lastResp
       ELSE /\ Respond(r, req[r], 500)
            /\ UNCHANGED <<mysql, aiEngine>>
    /\ UNCHANGED <<mysqlAvailable, tokenStore, loggedInUsers, deletedTopics, ServerState, sessionController, database,
                   feedbackEngine, nreq,
                   Observers>>

\* a row of feedback_history
FeedbackRow(q, conversationId) ==
    [user_id |-> q.user,
     sentence_status |-> IF q.turn.sentenceStatus = "has_errors" THEN "has_errors"
                         ELSE "correct",
     conversation_id |-> IF Truthy(conversationId) THEN conversationId ELSE NULL]

\* a row of grammar_mistakes
MistakeRow(q, conversationId) ==
    [user_id |-> q.user, conversation_id |-> conversationId]

\* the loop over mistakes: its condition is evaluated once, the conversation
\* is read at every call
ChatMistakes(r, q, incorrectCount) ==
    IF q.turn.hadCorrection /\ mysqlAvailable /\ Truthy(currentConversationId)
          /\ Len(q.turn.mistakes) > 0
    THEN /\ req' = [req EXCEPT ![r] = [q EXCEPT !.pc = "chatMistake", !.idx = 1,
                                                !.conv = currentConversationId]]
         /\ UNCHANGED lastResp
    ELSE ChatRespond(r, q, serverMessageCount, incorrectCount)

\* an AI call that never settles
ChatAIPending(r, reply) == FALSE

\* chat.sendMessage settles: analyzeAndRespond returns, the turn is classified
\* and counted, and the handler runs on to its next await
ChatAIDone(r, reply) ==
    /\ req[r].pc = "chatAI"
    /\ UNCHANGED failures
    /\ LET turn == TurnOf[req[r].text, reply]
           incorrectCount == IF turn.countsAsIncorrect THEN serverIncorrectCount + 1
                             ELSE serverIncorrectCount
           q == [req[r] EXCEPT !.turn = turn, !.aiFailed = reply.failed,
                               !.conv = currentConversationId]
       IN  /\ aiEngine' = AI_endAnalyze(aiEngine, reply)
           /\ serverIncorrectCount' = incorrectCount
           /\ IF mysqlAvailable
              THEN /\ req' = [req EXCEPT ![r] = [q EXCEPT !.pc = "chatFeedback"]]
                   /\ UNCHANGED lastResp
              ELSE ChatMistakes(r, q, incorrectCount)
    /\ UNCHANGED <<mysqlAvailable, tokenStore, loggedInUsers, deletedTopics, serverMessageCount, currentConversationId,
                   sessionStartTime, currentTopicInfo, currentUserLanguage,
                   activeSessions, sessionController, database, feedbackEngine,
                   mysql, nreq,
                   Observers>>

\* feedbackRepository.create settles; it catches its own errors
ChatFeedbackDone(r, ok) ==
    /\ req[r].pc = "chatFeedback"
    /\ Outcome(ok)
    /\ mysql' = IF ok THEN [mysql EXCEPT !.feedback_history =
                                Append(@, FeedbackRow(req[r], req[r].conv))]
                ELSE mysql
    /\ ChatMistakes(r, req[r], serverIncorrectCount)
    /\ UNCHANGED <<mysqlAvailable, tokenStore, loggedInUsers, deletedTopics, ServerState, Engines, nreq, Observers>>

\* grammarMistakeRepository.createWithConversation settles; it catches its
\* own errors
ChatMistakeDone(r, ok) ==
    /\ req[r].pc = "chatMistake"
    /\ Outcome(ok)
    /\ mysql' = IF ok THEN [mysql EXCEPT !.grammar_mistakes =
                                Append(@, MistakeRow(req[r], req[r].conv))]
                ELSE mysql
    /\ IF req[r].idx < Len(req[r].turn.mistakes)
       THEN /\ req' = [req EXCEPT ![r].idx = @ + 1, ![r].conv = currentConversationId]
            /\ UNCHANGED lastResp
       ELSE ChatRespond(r, req[r], serverMessageCount, serverIncorrectCount)
    /\ UNCHANGED <<mysqlAvailable, tokenStore, loggedInUsers, deletedTopics, ServerState, Engines, nreq, Observers>>

(***************************************************************************)
(* POST /api/session/end                                                   *)
(***************************************************************************)
\* res.json of end: accuracyScore is finalScore, the counters are read when
\* the response is built
EndRespond(r, q) ==
    /\ req' = [req EXCEPT ![r] = NoRequest]
    /\ lastResp' = [Response(q, 200) EXCEPT
                        !.score = q.score,
                        !.messagesCount = serverMessageCount,
                        !.incorrectCount = serverIncorrectCount]
    /\ sessionState' = [sessionState EXCEPT ![q.user] =
                            IF @ = "Idle" THEN "Idle" ELSE "Ended"]

\* the request arrives; the handler runs up to the await of
\* conversationRepository.complete, or to the response
EndArrive(r, u) ==
    /\ Arrives(r)
    /\ activeSessions' = [activeSessions EXCEPT ![u] = NoSession]
    /\ sessionController' = SC_sessionEnded(sessionController)
    /\ aiEngine' = IF sessionController.currentSession = NULL THEN aiEngine
                   ELSE AI_clearHistory(aiEngine)
    /\ LET q == [Arrival("end", u) EXCEPT
                     !.conv = currentConversationId,
                     !.score = Score(serverMessageCount, serverIncorrectCount)]
       IN  IF mysqlAvailable /\ Truthy(currentConversationId)
           THEN /\ req' = [req EXCEPT ![r] = [q EXCEPT !.pc = "endComplete"]]
                /\ UNCHANGED <<lastResp, sessionState>>
           ELSE EndRespond(r, q)
    /\ UNCHANGED <<mysqlAvailable, tokenStore, loggedInUsers, deletedTopics, serverMessageCount, serverIncorrectCount,
                   currentConversationId, sessionStartTime, currentTopicInfo,
                   currentUserLanguage, database, feedbackEngine, mysql,
                   turnsSubmitted>>

\* the UPDATE of complete: "scores.overall || null"
CompletedRow(row, finalScore) ==
    [row EXCEPT !.status = "completed",
                !.overall_score = IF Truthy(finalScore) THEN finalScore ELSE NULL]

\* "currentConversationId = null; sessionStartTime = null" and the response
EndReset(r) ==
    /\ currentConversationId' = NULL
    /\ sessionStartTime' = FALSE
    /\ EndRespond(r, req[r])

\* conversationRepository.complete settles; a rejection is caught and logged
EndCompleteDone(r, ok) ==
    /\ req[r].pc = "endComplete"
    /\ Outcome(ok)
    /\ IF ok
       THEN /\ mysql' = [mysql EXCEPT !.conversations[req[r].conv] =
                                          CompletedRow(@, req[r].score)]
            /\ req' = [req EXCEPT ![r].pc = "endDuration"]
            /\ UNCHANGED <<lastResp, sessionState>>
       ELSE /\ EndRespond(r, req[r])
            /\ UNCHANGED mysql
    /\ UNCHANGED <<mysqlAvailable, tokenStore, loggedInUsers, deletedTopics, ServerState, Engines, nreq, turnsSubmitted>>

\* conversationRepository.updateDuration settles
EndDurationDone(r, ok) ==
    /\ req[r].pc = "endDuration"
    /\ Outcome(ok)
    /\ IF ok /\ currentUserLanguage # ""
       THEN /\ req' = [req EXCEPT ![r].pc = "endLevels"]
            /\ UNCHANGED <<currentConversationId, sessionStartTime, lastResp,
                           sessionState>>
       ELSE IF ok
       THEN EndReset(r)
       ELSE /\ EndRespond(r, req[r])
            /\ UNCHANGED <<currentConversationId, sessionStartTime>>
    /\ UNCHANGED <<mysqlAvailable, tokenStore, loggedInUsers, deletedTopics, serverMessageCount, serverIncorrectCount,
                   currentTopicInfo, currentUserLanguage, activeSessions, Engines,
                   mysql, nreq, turnsSubmitted>>

\* updateUserLevels settles; it catches its own errors
EndLevelsDone(r) ==
    /\ req[r].pc = "endLevels"
    /\ UNCHANGED failures
    /\ EndReset(r)
    /\ UNCHANGED <<mysqlAvailable, tokenStore, loggedInUsers, deletedTopics, serverMessageCount, serverIncorrectCount,
                   currentTopicInfo, currentUserLanguage, activeSessions, Engines,
                   mysql, nreq, turnsSubmitted>>

(***************************************************************************)
(* POST /api/auth/logout and POST /api/auth/login                          *)
(***************************************************************************)
\* Map.delete(token)
WithoutToken(store, token) ==
    [t \in Tokens |-> IF t = token THEN NULL ELSE store[t]]

\* the tokens the middleware resolves to user u, "tokenStore.get(token)"; a
\* user whose login the maps do not hold has a token they do not hold
TokensOf(u) ==
    IF \E t \in Tokens : tokenStore[t] = u THEN {t \in Tokens : tokenStore[t] = u}
    ELSE {NULL}

\* a logout that leaves the logged-in-users map as it is
LogoutFromStore(r, u) ==
    /\ Arrives(r)
    /\ \E token \in TokensOf(u) :
          /\ tokenStore' = WithoutToken(tokenStore, token)
          /\ UNCHANGED loggedInUsers
    /\ activeSessions' = [activeSessions EXCEPT ![u] = NoSession]
    /\ Respond(r, Arrival("logout", u), 200)
    /\ UNCHANGED <<mysqlAvailable, deletedTopics, serverMessageCount,
                   serverIncorrectCount,
                   currentConversationId, sessionStartTime, currentTopicInfo,
                   currentUserLanguage, Engines, mysql, Observers>>

\* POST /api/auth/logout of user u: the request's token is deleted from both
\* maps and the user from the active sessions
Logout(r, u) ==
    /\ Arrives(r)
    /\ \E token \in TokensOf(u) :
          /\ tokenStore' = WithoutToken(tokenStore, token)
          /\ loggedInUsers' = WithoutToken(loggedInUsers, token)
    /\ activeSessions' = [activeSessions EXCEPT ![u] = NoSession]
    /\ Respond(r, Arrival("logout", u), 200)
    /\ UNCHANGED <<mysqlAvailable, deletedTopics, serverMessageCount,
                   serverIncorrectCount,
                   currentConversationId, sessionStartTime, currentTopicInfo,
                   currentUserLanguage, Engines, mysql, Observers>>

\* POST /api/auth/login of user u, taken up when the calls it awaits have
\* settled (the handler reads and writes the maps after them only).  With
\* valid credentials (ok) the MySQL path deletes the tokens the
\* logged-in-users map holds for the user from both maps; both paths then
\* set the generated token in both maps.
Login(r, u, token, ok) ==
    /\ Arrives(r)
    /\ IF ok
       THEN LET old == IF mysqlAvailable
                       THEN {t \in Tokens : loggedInUsers[t] = u}
                       ELSE {}
                Kept(store) == [t \in Tokens |-> IF t \in old THEN NULL ELSE store[t]]
            IN  /\ tokenStore' = [Kept(tokenStore) EXCEPT ![token] = u]
                /\ loggedInUsers' = [Kept(loggedInUsers) EXCEPT ![token] = u]
                /\ Respond(r, Arrival("login", u), 200)
       ELSE /\ UNCHANGED <<tokenStore, loggedInUsers>>
            /\ Respond(r, Arrival("login", u), 401)
    /\ UNCHANGED <<mysqlAvailable, deletedTopics, ServerState, Engines, mysql,
                   Observers>>

(***************************************************************************)
(* The server                                                              *)
(***************************************************************************)
Next ==
    \/ \E r \in Requests, u \in Users, t \in TopicInputs : StartArrive(r, u, t)
    \/ \E r \in Requests, ok \in BOOLEAN : StartUserDone(r, ok)
    \/ \E r \in Requests, ok \in BOOLEAN : StartTopicDone(r, ok)
    \/ \E r \in Requests, o \in {"created", "insert_failed", "update_failed"} :
            StartCreateDone(r, o)
    \/ \E r \in Requests : StartLangDone(r)
    \/ \E r \in Requests, u \in Users, text \in UserTexts : ChatArrive(r, u, text)
    \/ \E r \in Requests, ok \in BOOLEAN : ChatUserDone(r, ok)
    \/ \E r \in Requests, ok \in BOOLEAN : ChatIncrDone(r, ok)
    \/ \E r \in Requests, reply \in AIReplies : ChatAIDone(r, reply)
    \/ \E r \in Requests, ok \in BOOLEAN : ChatFeedbackDone(r, ok)
    \/ \E r \in Requests, ok \in BOOLEAN : ChatMistakeDone(r, ok)
    \/ \E r \in Requests, u \in Users : EndArrive(r, u)
    \/ \E r \in Requests, ok \in BOOLEAN : EndCompleteDone(r, ok)
    \/ \E r \in Requests, ok \in BOOLEAN : EndDurationDone(r, ok)
    \/ \E r \in Requests : EndLevelsDone(r)
    \/ \E r \in Requests, u \in Users : Logout(r, u)

Spec == Init /\ [][Next]_vars

(***************************************************************************)
(* The score of a long session.  The server without MySQL is taken up in   *)
(* the state it has once user 1's session on topic 1 has had some turns,   *)
(* the first of them answered with the verdict has_errors and the others   *)
(* as correct, and one more request is followed: a turn or the end.        *)
(***************************************************************************)
\* the reply to a turn counted incorrect, and to one counted correct
flaggedReply ==
    [failed |-> FALSE, sentence_status |-> "has_errors", mistakes |-> <<>>,
     feedback |-> plainReply]
correctReply ==
    [failed |-> FALSE, sentence_status |-> "", mistakes |-> <<>>,
     feedback |-> plainReply]

\* conversationHistory after that many turns
HistoryAfter(turns) ==
    [n \in 1..(2 * turns) |->
        IF n % 2 = 1 THEN <<"User:">> \o (CHOOSE text \in UserTexts : TRUE)
        ELSE <<"AI:">> \o plainReply]

\* the response to the last of the turns, or to the start request
ResponseAfter(turns, incorrect) ==
    IF turns = 0
    THEN [NoResponse EXCEPT !.kind = "start", !.user = 1, !.sess = "Idle", !.code = 200]
    ELSE [NoResponse EXCEPT
              !.kind = "chat", !.user = 1, !.sess = "Active", !.code = 200,
              !.score = Score(turns, incorrect),
              !.messagesCount = turns,
              !.incorrectCount = incorrect,
              !.turn = TurnOf[CHOOSE text \in UserTexts : TRUE,
                              IF incorrect = turns THEN flaggedReply
                              ELSE correctReply]]

ScoreInit ==
    \E turns \in 0..MaxTurns : \E incorrect \in 0..turns :
        /\ mysqlAvailable = FALSE
        /\ tokenStore = [token \in Tokens |-> NULL]
        /\ loggedInUsers = [token \in Tokens |-> NULL]
        /\ deletedTopics = {}
        /\ serverMessageCount = turns
        /\ serverIncorrectCount = incorrect
        /\ currentConversationId = NULL
        /\ sessionStartTime = FALSE
        /\ currentTopicInfo = TopicName(1)
        /\ currentUserLanguage = ""
        /\ activeSessions = [u \in Users |-> NoSession]
        /\ aiEngine = [conversationHistory |-> HistoryAfter(turns),
                       chat |-> turns > 0, currentSessionId |-> 0,
                       userMessageCount |-> turns, incorrectCount |-> incorrect,
                       lastScore |-> 100]
        /\ sessionController = [currentSession |-> NULL, currentUser |-> NULL,
                                currentTopicId |-> 1, isRecording |-> FALSE,
                                conversationContext |-> NoContext]
        /\ feedbackEngine = NoFeedbackData
        /\ database = NewDatabase
        /\ mysql = [conversations |-> <<>>, feedback_history |-> <<>>,
                    grammar_mistakes |-> <<>>]
        /\ req = [r \in Requests |-> NoRequest]
        /\ nreq = MaxRequests - 1
        /\ lastResp = ResponseAfter(turns, incorrect)
        /\ failures = 0
        /\ sessionState = [u \in Users |-> IF u = 1 THEN "Active" ELSE "Idle"]
        /\ turnsSubmitted = [u \in Users |-> IF u = 1 THEN turns ELSE 0]

ScoreNext ==
    \/ \E r \in Requests, u \in Users, text \in UserTexts : ChatArrive(r, u, text)
    \/ \E r \in Requests, reply \in AIReplies : ChatAIDone(r, reply)
    \/ \E r \in Requests, u \in Users : EndArrive(r, u)

ScoreSpec == ScoreInit /\ [][ScoreNext]_vars

(***************************************************************************)
(* Progress.  The requests of one user are followed, and every call that a *)
(* chat request awaits settles in the end: the AI call returns or fails    *)
(* (analyzeAndRespond catches the failure), and each mysql2 query resolves *)
(* or rejects.  Node runs the continuation of a settled promise.           *)
(***************************************************************************)
\* a pending call of the chat request in slot r settles
ChatSettles(r) ==
    \/ \E ok \in BOOLEAN : ChatUserDone(r, ok)
    \/ \E ok \in BOOLEAN : ChatIncrDone(r, ok)
    \/ \E reply \in AIReplies : ChatAIDone(r, reply)
    \/ \E ok \in BOOLEAN : ChatFeedbackDone(r, ok)
    \/ \E ok \in BOOLEAN : ChatMistakeDone(r, ok)

LiveNext ==
    \/ \E r \in Requests, t \in TopicInputs : StartArrive(r, 1, t)
    \/ \E r \in Requests, ok \in BOOLEAN : StartUserDone(r, ok)
    \/ \E r \in Requests, ok \in BOOLEAN : StartTopicDone(r, ok)
    \/ \E r \in Requests, o \in {"created", "insert_failed", "update_failed"} :
            StartCreateDone(r, o)
    \/ \E r \in Requests : StartLangDone(r)
    \/ \E r \in Requests, text \in UserTexts : ChatArrive(r, 1, text)
    \/ \E r \in Requests : ChatSettles(r)
    \/ \E r \in Requests : EndArrive(r, 1)
    \/ \E r \in Requests, ok \in BOOLEAN : EndCompleteDone(r, ok)
    \/ \E r \in Requests, ok \in BOOLEAN : EndDurationDone(r, ok)
    \/ \E r \in Requests : EndLevelsDone(r)
    \/ \E r \in Requests : Logout(r, 1)

LiveSpec ==
    Init /\ [][LiveNext]_vars /\ \A r \in Requests : WF_vars(ChatSettles(r))

\* Sessions that are started and ended, when every call a handler awaits
\* settles: a mysql2 promise resolves or rejects, and the handler then runs
\* on to its next await or to its response.
SessionNext ==
    \/ \E r \in Requests, u \in Users, t \in TopicInputs : StartArrive(r, u, t)
    \/ \E r \in Requests, ok \in BOOLEAN : StartUserDone(r, ok)
    \/ \E r \in Requests, ok \in BOOLEAN : StartTopicDone(r, ok)
    \/ \E r \in Requests, o \in {"created", "insert_failed", "update_failed"} :
            StartCreateDone(r, o)
    \/ \E r \in Requests : StartLangDone(r)
    \/ \E r \in Requests, u \in Users : EndArrive(r, u)
    \/ \E r \in Requests, ok \in BOOLEAN : EndCompleteDone(r, ok)
    \/ \E r \in Requests, ok \in BOOLEAN : EndDurationDone(r, ok)
    \/ \E r \in Requests : EndLevelsDone(r)

SessionSpec ==
    /\ Init /\ [][SessionNext]_vars
    /\ \A r \in Requests :
          WF_vars(\/ \E ok \in BOOLEAN : StartUserDone(r, ok)
                  \/ \E ok \in BOOLEAN : StartTopicDone(r, ok)
                  \/ \E o \in {"created", "insert_failed", "update_failed"} :
                        StartCreateDone(r, o)
                  \/ StartLangDone(r)
                  \/ \E ok \in BOOLEAN : EndCompleteDone(r, ok)
                  \/ \E ok \in BOOLEAN : EndDurationDone(r, ok)
                  \/ EndLevelsDone(r))

(***************************************************************************)
(* The classification of a turn on its own.  The server without MySQL is   *)
(* taken up in the state it has once a start request without a topic was   *)
(* rejected and user 1's session on topic 1 was started, and the chat      *)
(* requests that follow are answered with replies of every shape.          *)
(***************************************************************************)
ClassifyInit ==
    /\ mysqlAvailable = FALSE
    /\ tokenStore = [token \in Tokens |-> NULL]
    /\ loggedInUsers = [token \in Tokens |-> NULL]
    /\ deletedTopics = {}
    /\ serverMessageCount = 0
    /\ serverIncorrectCount = 0
    /\ currentConversationId = NULL
    /\ sessionStartTime = FALSE
    /\ currentTopicInfo = TopicName(1)
    /\ currentUserLanguage = ""
    /\ activeSessions = [u \in Users |-> NoSession]
    /\ aiEngine = [conversationHistory |-> <<>>, chat |-> FALSE, currentSessionId |-> 0,
                   userMessageCount |-> 0, incorrectCount |-> 0, lastScore |-> 100]
    /\ sessionController = [currentSession |-> NULL, currentUser |-> NULL,
                            currentTopicId |-> 1, isRecording |-> FALSE,
                            conversationContext |-> NoContext]
    /\ feedbackEngine = NoFeedbackData
    /\ database = NewDatabase
    /\ mysql = [conversations |-> <<>>, feedback_history |-> <<>>,
                grammar_mistakes |-> <<>>]
    /\ req = [r \in Requests |-> NoRequest]
    /\ nreq = MaxRequests - 2
    /\ lastResp = ResponseAfter(0, 0)
    /\ failures = 0
    /\ sessionState = [u \in Users |-> IF u = 1 THEN "Active" ELSE "Idle"]
    /\ turnsSubmitted = [u \in Users |-> 0]

ClassifyNext ==
    \/ \E r \in Requests, text \in ClassifyTexts : ChatArrive(r, 1, text)
    \/ \E r \in Requests, reply \in ClassifyReplies : ChatAIDone(r, reply)

ClassifySpec == ClassifyInit /\ [][ClassifyNext]_vars

(***************************************************************************)
(* The session report.  FeedbackEngine.provideSessionFeedback is applied   *)
(* to an engine that holds the grammar and fluency scores of a session.    *)
(***************************************************************************)
ReportInit ==
    /\ mysqlAvailable = FALSE
    /\ tokenStore = [token \in Tokens |-> NULL]
    /\ loggedInUsers = [token \in Tokens |-> NULL]
    /\ deletedTopics = {}
    /\ serverMessageCount = 0
    /\ serverIncorrectCount = 0
    /\ currentConversationId = NULL
    /\ sessionStartTime = FALSE
    /\ currentTopicInfo = NoTopic
    /\ currentUserLanguage = ""
    /\ activeSessions = [u \in Users |-> NoSession]
    /\ aiEngine = [conversationHistory |-> <<>>, chat |-> FALSE, currentSessionId |-> NULL,
                   userMessageCount |-> 0, incorrectCount |-> 0, lastScore |-> 100]
    /\ sessionController = [currentSession |-> NULL, currentUser |-> NULL,
                            currentTopicId |-> 0, isRecording |-> FALSE,
                            conversationContext |-> NoContext]
    /\ \E grammarScores \in SessionScores, fluencyScores \in SessionScores :
            feedbackEngine = [NoFeedbackData EXCEPT !.grammarScores = grammarScores,
                                                   !.fluencyScores = fluencyScores]
    /\ database = NewDatabase
    /\ mysql = [conversations |-> <<>>, feedback_history |-> <<>>,
                grammar_mistakes |-> <<>>]
    /\ req = [r \in Requests |-> NoRequest]
    /\ nreq = 0
    /\ lastResp = NoResponse
    /\ failures = 0
    /\ sessionState = [u \in Users |-> "Idle"]
    /\ turnsSubmitted = [u \in Users |-> 0]

\* provideSessionFeedback is called and returns its report
ProvideSessionFeedback ==
    /\ feedbackEngine.report = NoReport
    /\ feedbackEngine' = [feedbackEngine EXCEPT !.report =
                              provideSessionFeedback(feedbackEngine)]
    /\ UNCHANGED <<mysqlAvailable, tokenStore, loggedInUsers, deletedTopics, ServerState, aiEngine, sessionController,
                   database, mysql, req, nreq, lastResp, failures, Observers>>

ReportNext == ProvideSessionFeedback

ReportSpec == ReportInit /\ [][ReportNext]_vars

(***************************************************************************)
(* The SessionController on its own: its operations are called in any      *)
(* order on the controller as constructed.                                 *)
(***************************************************************************)
ControllerNext ==
    \* setCurrentUser
    \/ /\ \E u \in Users :
             sessionController' = [sessionController EXCEPT !.currentUser = u]
       /\ UNCHANGED <<mysqlAvailable, tokenStore, loggedInUsers, deletedTopics, ServerState, aiEngine, database, feedbackEngine,
                      mysql, req, nreq, lastResp, failures, Observers>>
    \* setTopic
    \/ /\ \E topicId \in MemTopics \cup TopicInputs :
             sessionController' = SC_setTopic(sessionController, topicId)
       /\ UNCHANGED <<mysqlAvailable, tokenStore, loggedInUsers, deletedTopics, ServerState, aiEngine, database, feedbackEngine,
                      mysql, req, nreq, lastResp, failures, Observers>>
    \* startRecording
    \/ /\ sessionController.currentSession # NULL \/ database.nextSessionId <= MaxSessions
       /\ sessionController' = SC_startRecording(sessionController, database)
       /\ database' = DB_startRecording(sessionController, database)
       /\ UNCHANGED <<mysqlAvailable, tokenStore, loggedInUsers, deletedTopics, ServerState, aiEngine, feedbackEngine,
                      mysql, req, nreq, lastResp, failures, Observers>>
    \* sendAudio: without a recording session, or without speech in the audio,
    \* it returns; else the grammar and fluency scores of the transcription
    \* are added to the session's scores
    \/ /\ Len(feedbackEngine.grammarScores) < MaxScores
       /\ \E speech \in BOOLEAN, grammar \in {60, 90}, fluency \in {60, 90} :
             feedbackEngine' =
                 IF ~sessionController.isRecording
                       \/ sessionController.currentSession = NULL \/ ~speech
                 THEN feedbackEngine
                 ELSE [feedbackEngine EXCEPT !.grammarScores = Append(@, grammar),
                                             !.fluencyScores = Append(@, fluency)]
       /\ UNCHANGED <<mysqlAvailable, tokenStore, loggedInUsers, deletedTopics, ServerState, aiEngine, sessionController,
                      database, mysql, req, nreq, lastResp, failures, Observers>>
    \* sessionEnded: the report of the session is produced; the next session
    \* has an id of its own, under which no score is held yet
    \/ /\ sessionController' = SC_sessionEnded(sessionController)
       /\ IF sessionController.currentSession = NULL
          THEN UNCHANGED <<feedbackEngine, aiEngine>>
          ELSE /\ feedbackEngine' =
                      [NoFeedbackData EXCEPT !.report =
                           provideSessionFeedback(feedbackEngine)]
               /\ aiEngine' = AI_clearHistory(aiEngine)
       /\ UNCHANGED <<mysqlAvailable, tokenStore, loggedInUsers, deletedTopics, ServerState, database,
                      mysql, req, nreq, lastResp, failures, Observers>>

ControllerSpec == Init /\ [][ControllerNext]_vars

(***************************************************************************)
(* Authentication on its own: login and logout requests in any order.      *)
(***************************************************************************)
AuthNext ==
    \/ \E r \in Requests, u \in Users, token \in Tokens, ok \in BOOLEAN :
            Login(r, u, token, ok)
    \/ \E r \in Requests, u \in Users : Logout(r, u)

AuthSpec == Init /\ [][AuthNext]_vars

(***************************************************************************)
(* The TopicManager on its own: its operations are called in any order on  *)
(* the Database as constructed.  deletedTopics follows the ids that        *)
(* deleteTopic has deleted and createTopic has not stored anew since.      *)
(***************************************************************************)
TopicNext ==
    \* createTopic, with and without an id
    \/ /\ \E topicId \in 0..MaxTopics, topic \in TopicData :
             /\ Truthy(topicId) \/ database.nextTopicId <= MaxTopics
             /\ database' = TM_createTopic(database, topicId, topic)
             /\ deletedTopics' = IF validateTopic(topic) THEN deletedTopics \ {topicId}
                                 ELSE deletedTopics
       /\ UNCHANGED <<mysqlAvailable, tokenStore, loggedInUsers, ServerState, aiEngine,
                      sessionController, feedbackEngine, mysql, req, nreq, lastResp,
                      failures, Observers>>
    \* updateTopic
    \/ /\ \E topicId \in 1..MaxTopics, topic \in TopicData :
             database' = TM_updateTopic(database, topicId, topic)
       /\ UNCHANGED <<mysqlAvailable, tokenStore, loggedInUsers, deletedTopics,
                      ServerState, aiEngine, sessionController, feedbackEngine, mysql,
                      req, nreq, lastResp, failures, Observers>>
    \* deleteTopic
    \/ /\ \E topicId \in 1..MaxTopics :
             /\ database' = TM_deleteTopic(database, topicId)
             /\ deletedTopics' = IF topicId \in DOMAIN database.topics
                                 THEN deletedTopics \cup {topicId}
                                 ELSE deletedTopics
       /\ UNCHANGED <<mysqlAvailable, tokenStore, loggedInUsers, ServerState, aiEngine,
                      sessionController, feedbackEngine, mysql, req, nreq, lastResp,
                      failures, Observers>>

TopicSpec == Init /\ [][TopicNext]_vars
(***************************************************************************)
(* Properties                                                              *)
(***************************************************************************)
\* no request is being handled
Quiescent == \A r \in Requests : req[r].pc = "idle"

\* this step records the turn of the chat request in slot r (total counter)
Recorded(r) ==
    /\ req[r].pc \in {"idle", "chatUser"}
    /\ req'[r].pc \in {"chatIncr", "chatAI"}

\* this step classifies the turn of the chat request in slot r
Classified(r) == req[r].pc = "chatAI" /\ req'[r].pc # "chatAI"

\* the classified turn after such a step: in the request's locals, or in
\* the response when the step also responds
TurnAfter(r) == IF req'[r].pc = "idle" THEN lastResp'.turn ELSE req'[r].turn
FailedAfter(r) == IF req'[r].pc = "idle" THEN lastResp'.aiFailed ELSE req'[r].aiFailed

\* the user whose request takes this step
Actor ==
    IF \E r \in Requests : req'[r] # req[r]
    THEN LET r == CHOOSE x \in Requests : req'[x] # req[x]
         IN  IF req'[r].kind # "none" THEN req'[r].user ELSE req[r].user
    ELSE lastResp'.user

\* C1: the score reported by every chat and end response lies between 0 and
\* 100, and a chat response reports 100 when it reports no counted turn
C1_ScoreInRange ==
    lastResp.code = 200 /\ lastResp.kind \in {"chat", "end"}
        => /\ lastResp.score \in 0..100
           /\ lastResp.kind = "chat" /\ lastResp.messagesCount = 0
                  => lastResp.score = 100

\* C2: whenever no request is being handled, the total-turn counter equals,
\* for every user with an active session, the number of chat calls recorded
\* since that session started
C2_TotalIsChatCalls ==
    Quiescent =>
        \A u \in Users : sessionState[u] = "Active"
                            => serverMessageCount = turnsSubmitted[u]

C4_ChatAfterEndRejected ==
    /\ \A r \in Requests : req[r].kind = "chat" => req[r].sess # "Ended"
    /\ lastResp.kind = "chat" /\ lastResp.sess = "Ended" => lastResp.code = 400

\* C5: two chat requests of one user are never both between the recording
\* of their turn and its classification
C5_ChatsSerialized ==
    \A r1, r2 \in Requests :
        r1 # r2 /\ req[r1].kind = "chat" /\ req[r2].kind = "chat"
                /\ req[r1].user = req[r2].user
            => ~(req[r1].pc \in {"chatIncr", "chatAI"}
                    /\ req[r2].pc \in {"chatIncr", "chatAI"})

\* C6: a step of one user's request changes neither the counters, the topic
\* context, the chat history nor the current conversation while another
\* user's session is active
C6_SessionsIndependent ==
    [][\A v \in Users :
          v # Actor /\ sessionState[v] = "Active"
              => UNCHANGED <<serverMessageCount, serverIncorrectCount,
                             currentTopicInfo, aiEngine.conversationHistory,
                             currentConversationId>>]_vars

\* C7: when the AI call fails, the turn is classified correct with the
\* fallback text as the AI's response, the incorrect counter is not
\* incremented, the session stays as it is, and the request is answered
\* with 200
C7_AIFailureGivesCorrectTurn ==
    [][\A r \in Requests :
          /\ Classified(r) /\ FailedAfter(r) =>
                /\ TurnAfter(r).sentenceStatus = "correct"
                /\ TurnAfter(r).aiResponse = fallback
                /\ TurnAfter(r).mistakes = <<>>
                /\ serverIncorrectCount' = serverIncorrectCount
                /\ UNCHANGED <<currentTopicInfo, activeSessions, sessionState>>
          /\ (Classified(r) /\ FailedAfter(r)) \/ req[r].aiFailed =>
                (req'[r].pc = "idle" => lastResp'.code = 200)]_vars

\* C7 happens: a chat whose AI call failed was answered
C7_Witness ==
    /\ lastResp.kind = "chat"
    /\ lastResp.aiFailed
    /\ lastResp.code = 200
    /\ lastResp.turn.aiResponse = fallback

\* C8: an end request made after the user's session has ended does not
\* complete a conversation that is recorded as completed already
C8_SecondEndIsNoOp ==
    [][\A r \in Requests :
          req[r].kind = "end" /\ req[r].sess = "Ended"
                /\ req[r].pc = "endComplete" /\ req'[r].pc = "endDuration"
              => mysql.conversations[req[r].conv].status # "completed"]_vars

\* C9: no user has more than one conversation persisted as active
C9_OneActiveSession ==
    \A u \in Users :
        Cardinality({i \in DOMAIN mysql.conversations :
                        /\ mysql.conversations[i].user_id = u
                        /\ mysql.conversations[i].status = "active"}) <= 1

\* C10: no chat request is answered with an error because a persistence
\* call failed
C10_PersistenceFailureTolerated ==
    lastResp.kind = "chat" => lastResp.code # 500

\* whether a correction-indicator phrase occurs in the feedback of a reply
PhraseFound == [reply \in ClassifyReplies |-> DetectedCorrection(reply.feedback)]

\* this step classifies the turn of slot r from the given reply
Answered(r, reply) ==
    /\ Classified(r)
    /\ FailedAfter(r) = reply.failed
    /\ TurnAfter(r) = TurnOf[req[r].text, reply]

\* C11: when the AI's reply says the sentence is correct and lists no
\* mistake but its feedback holds a correction-indicator phrase, the turn is
\* classified has_errors and, unless its category is fluency_naturalness,
\* the incorrect counter grows by one
C11_PatternOverridesCorrect ==
    [][\A r \in Requests, reply \in AIReplies :
          /\ Answered(r, reply)
          /\ ~reply.failed
          /\ reply.sentence_status \in {"", "correct"}
          /\ reply.mistakes = <<>>
          /\ PhraseFound[reply]
          => /\ TurnAfter(r).sentenceStatus = "has_errors"
             /\ TurnAfter(r).grammarCategory # "fluency_naturalness"
                   => serverIncorrectCount' = serverIncorrectCount + 1]_vars

\* C11 happens: a first turn whose reply said "correct" next to a "could say"
\* phrase was answered as a turn with errors, counted incorrect
C11_Witness ==
    /\ lastResp.kind = "chat"
    /\ lastResp.code = 200
    /\ lastResp.turn.aiResponse = couldSayReply
    /\ Len(lastResp.turn.mistakes) = 1
    /\ lastResp.turn.mistakes[1].original_text \in UserTexts
    /\ lastResp.turn.sentenceStatus = "has_errors"
    /\ lastResp.messagesCount = 1
    /\ lastResp.incorrectCount = 1

\* C12: when the AI's reply lists mistakes that carry both fragments and its
\* feedback also holds a correction-indicator phrase, the turn's mistakes are
\* the reply's mistakes, one for one, with the reply's fragments and with the
\* defaults filled in; the user's text and the text extracted from the
\* feedback do not appear in them
C12_StructuredWins ==
    [][\A r \in Requests, reply \in AIReplies :
          /\ Answered(r, reply)
          /\ ~reply.failed
          /\ Len(reply.mistakes) > 0
          /\ \A i \in 1..Len(reply.mistakes) :
                /\ reply.mistakes[i].original_text # <<>>
                /\ reply.mistakes[i].corrected_text # <<>>
          /\ PhraseFound[reply]
          => LET turn == TurnAfter(r)
             IN  /\ Len(turn.mistakes) = Len(reply.mistakes)
                 /\ \A i \in 1..Len(reply.mistakes) :
                       LET m == turn.mistakes[i]
                           given == reply.mistakes[i]
                       IN  /\ m.original_text = given.original_text
                           /\ m.corrected_text = given.corrected_text
                           /\ m.category = (IF given.category = "" THEN "grammar"
                                            ELSE given.category)
                           /\ m.grammar_category =
                                 (IF given.grammar_category = "" THEN "general"
                                  ELSE given.grammar_category)
                           /\ "severity" \in DOMAIN m /\ m.severity = "medium"
                           /\ m.original_text # req[r].text
                           /\ m.corrected_text # ExtractCorrectedText(reply.feedback)]_vars

\* C12 happens: a turn whose reply listed the mistake "go" -> "went" next to
\* a "could say" phrase was answered with that mistake
C12_Witness ==
    /\ lastResp.kind = "chat"
    /\ lastResp.code = 200
    /\ lastResp.turn.aiResponse = couldSayReply
    /\ Len(lastResp.turn.mistakes) = 1
    /\ lastResp.turn.mistakes[1].original_text = <<"go">>
    /\ lastResp.turn.mistakes[1].corrected_text = <<"went">>

Responds ==
    \/ \E r \in Requests : req[r].pc # "idle" /\ req'[r].pc = "idle"
    \/ nreq' # nreq /\ req' = req

\* C14: whenever a chat or end response reports counters with
\* 0 <= incorrect <= total, the score it reports is 100 for total = 0 and
\* otherwise the integer nearest to 100 * (total - incorrect) / total, a tie
\* going up
C14_ScoreIsRoundedRatio ==
    [][/\ Responds
       /\ lastResp'.code = 200
       /\ lastResp'.kind \in {"chat", "end"}
       /\ 0 <= lastResp'.incorrectCount
       /\ lastResp'.incorrectCount <= lastResp'.messagesCount
       => LET total == lastResp'.messagesCount
              correct == total - lastResp'.incorrectCount
              score == lastResp'.score
          IN  IF total = 0 THEN score = 100
              ELSE /\ 2 * score * total <= 200 * correct + total
                   /\ 200 * correct + total < 2 * (score + 1) * total]_vars

(***************************************************************************)
(* C15..C20: the lifecycle                                                 *)
(***************************************************************************)
\* no session has been started since the server came up: no start request
\* has been answered with success and none is being handled
NeverStarted ==
    /\ \A u \in Users : sessionState[u] = "Idle"
    /\ \A r \in Requests : req[r].kind # "start"

\* the step is the arrival of a chat request
ChatArrives ==
    /\ nreq' = nreq + 1
    /\ \/ \E r \in Requests : req[r].pc = "idle" /\ req'[r].kind = "chat"
       \/ req' = req /\ lastResp'.kind = "chat"

\* C15: a chat request that arrives while no session has been started since
\* the server came up is answered at once with status 400 ("No active
\* session"), and neither serverMessageCount nor serverIncorrectCount changes.
C15_IdleChatRejected ==
    [][NeverStarted /\ ChatArrives
       => /\ req' = req
          /\ lastResp'.kind = "chat" /\ lastResp'.code = 400
          /\ serverMessageCount' = serverMessageCount
          /\ serverIncorrectCount' = serverIncorrectCount]_vars

\* a chat of a user who is Idle has just been rejected on a server that never
\* started a session
C15_Witness ==
    /\ NeverStarted
    /\ lastResp.kind = "chat" /\ lastResp.code = 400 /\ lastResp.sess = "Idle"
    /\ serverMessageCount = 0 /\ serverIncorrectCount = 0

\* the step answers a start request with success
StartCompletes ==
    Responds /\ lastResp'.kind = "start" /\ lastResp'.code = 200

\* C16: when a start request completes, the session's score state is fresh:
\* serverMessageCount = 0 and serverIncorrectCount = 0.
C16_StartGivesFreshScore ==
    [][StartCompletes => serverMessageCount' = 0 /\ serverIncorrectCount' = 0]_vars

\* the step answers the end request of a user whose session was Active
EndCompletes ==
    Responds /\ lastResp'.kind = "end" /\ lastResp'.code = 200
             /\ lastResp'.sess = "Active"

\* C17: when the end request of an Active session completes, the session is
\* Ended, the AI engine's conversationHistory is empty and its chat is null.
C17_EndClearsHistory ==
    [][EndCompletes
       => /\ sessionState'[lastResp'.user] = "Ended"
          /\ aiEngine'.conversationHistory = <<>>
          /\ ~aiEngine'.chat]_vars

\* C18: when every call a chat request awaits settles in the end, every chat
\* request that has been accepted is answered in the end, whatever arrives
\* and completes in between.
C18_ChatResolves ==
    \A r \in Requests :
        (req[r].kind = "chat" /\ req[r].pc # "idle") ~> (req[r].pc = "idle")

\* a chat whose AI call failed has been answered through the fallback path,
\* on a server with MySQL
C18_Witness ==
    /\ mysqlAvailable
    /\ lastResp.kind = "chat" /\ lastResp.code = 200 /\ lastResp.aiFailed

\* C19: a start request whose topic id is found neither in MySQL nor in the
\* in-memory topics (the session's topic is then the default "General
\* Conversation") is not answered with success and does not change the
\* user's session state.
C19_UnresolvedTopicNotActive ==
    [][Responds /\ lastResp'.kind = "start"
                /\ currentTopicInfo' = "General Conversation"
       => /\ lastResp'.code # 200
          /\ sessionState'[lastResp'.user] = sessionState[lastResp'.user]]_vars

\* C20: when the logout of a user whose session is Active is answered, no
\* other user has started a session and no request is being handled, then no
\* data of the session is left in memory: the user has no activeSessions
\* entry, currentTopicInfo and currentConversationId are null, both counters
\* are 0 and the AI engine's conversationHistory is empty.
C20_LogoutClearsSession ==
    [][/\ Responds /\ lastResp'.kind = "logout" /\ lastResp'.sess = "Active"
       /\ \A v \in Users \ {lastResp'.user} : sessionState[v] = "Idle"
       /\ \A r \in Requests : req'[r].pc = "idle"
       => /\ ~activeSessions'[lastResp'.user].present
          /\ currentTopicInfo' = NoTopic
          /\ currentConversationId' = NULL
          /\ serverMessageCount' = 0 /\ serverIncorrectCount' = 0
          /\ aiEngine'.conversationHistory = <<>>]_vars

\* the first fragment of a list of fragments that is not empty, <<>> when
\* all are empty
FirstFragment(fragments) ==
    LET found == {i \in 1..Len(fragments) : fragments[i] # <<>>}
    IN  IF found = {} THEN <<>> ELSE fragments[MinOf(found)]

\* what the nine patterns of the documented list yield, in the list's order
ListedFragment ==
    [reply \in ClassifyReplies |->
        LET f == reply.feedback
        IN  FirstFragment(<<moreCommonMatch(f), wouldBeMatch(f), boldMatches(f),
                            fullSentenceMatch(f), couldSayMatch(f), quotedMatch(f),
                            itWasMatch(f), bulletQuoteMatch(f), shouldBeMatch(f)>>)]

\* the same with the "I'm about to" pattern between the "It was/is" pattern
\* and the bulleted quoted clauses
CascadeFragment ==
    [reply \in ClassifyReplies |->
        LET f == reply.feedback
        IN  FirstFragment(<<moreCommonMatch(f), wouldBeMatch(f), boldMatches(f),
                            fullSentenceMatch(f), couldSayMatch(f), quotedMatch(f),
                            itWasMatch(f), aboutToMatch(f), bulletQuoteMatch(f),
                            shouldBeMatch(f)>>)]

\* the turn of slot r is classified in this step from the feedback text of
\* the reply: the reply lists no mistake, calls the sentence correct and its
\* feedback holds a correction-indicator phrase
Extracted(r, reply) ==
    /\ Answered(r, reply)
    /\ ~reply.failed
    /\ reply.sentence_status \in {"", "correct"}
    /\ reply.mistakes = <<>>
    /\ PhraseFound[reply]

\* C21 as stated: when a turn is classified from the feedback text and one
\* of the nine listed patterns yields a fragment, the corrected text of the
\* turn's mistake is the fragment of the first listed pattern that yields one
C21_FirstListedPatternWins ==
    [][\A r \in Requests, reply \in ClassifyReplies :
          Extracted(r, reply) /\ ListedFragment[reply] # <<>>
          => /\ Len(TurnAfter(r).mistakes) = 1
             /\ TurnAfter(r).mistakes[1].corrected_text = ListedFragment[reply]]_vars

\* C21 amended: the list has a tenth pattern, "I'm about to <verb> <noun>",
\* tried after the "It was/is" pattern and before the bulleted quoted
\* clauses; the corrected text is the fragment of the first of the ten
\* patterns that yields one
C21_FirstPatternWins ==
    [][\A r \in Requests, reply \in ClassifyReplies :
          Extracted(r, reply) /\ CascadeFragment[reply] # <<>>
          => /\ Len(TurnAfter(r).mistakes) = 1
             /\ TurnAfter(r).mistakes[1].corrected_text = CascadeFragment[reply]]_vars

\* C21 happens: a turn whose feedback holds both 'more common to say
\* "I went home."' and 'you could say "I walked home."' was answered with
\* the corrected text "I went home."
C21_Witness ==
    /\ lastResp.kind = "chat"
    /\ lastResp.code = 200
    /\ lastResp.turn.aiResponse = bothReply
    /\ couldSayMatch(bothReply) = <<"I", "walked", "home", ".">>
    /\ Len(lastResp.turn.mistakes) = 1
    /\ lastResp.turn.mistakes[1].corrected_text = <<"I", "went", "home", ".">>

\* the category of the documented order of tests: (a) missing-verb language,
\* (b) tense language or a base -> past verb pair, (c) a word-substitution
\* pair, (d) "article", (e) "preposition", (f) naturalness language,
\* (g) sentence structure
DocumentedCategory(text, aiResponse) ==
    LET feedbackLower == ToLower(aiResponse)
        matchedPattern == MatchedPattern(aiResponse)
        correctedText == ExtractCorrectedText(aiResponse)
    IN  IF \/ Includes(matchedPattern, <<"need", "to", "use">>)
           \/ Includes(matchedPattern, <<"verb">>)
           \/ Includes(matchedPattern, <<"missing">>)
           \/ Includes(feedbackLower, <<"need", "a", "verb">>)
           \/ Includes(feedbackLower, <<"missing", "verb">>)
           \/ Includes(feedbackLower, <<"use", "the", "right", "verb">>)
           \/ Includes(feedbackLower, <<"we", "need", "to", "use">>)
        THEN "grammar_sentence_structure"
        ELSE IF \/ Includes(matchedPattern, <<"tense">>)
                \/ matchedPattern \in {<<"**had**">>, <<"**was**">>, <<"**went**">>}
                \/ Includes(feedbackLower, <<"past", "tense">>)
                \/ Includes(feedbackLower, <<"present", "tense">>)
                \/ Includes(feedbackLower, <<Q, "was", Q, "vs">>)
                \/ Includes(feedbackLower, <<Q, "is", Q, "vs">>)
                \/ Includes(feedbackLower, <<"we", "use", Q, "was", Q>>)
                \/ Includes(feedbackLower, <<"we", "use", Q, "had", Q>>)
                \/ Includes(feedbackLower, <<"already", "happened">>)
                \/ Includes(feedbackLower, <<"since", "the">>)
                \/ Includes(feedbackLower, <<"because", "it", "already">>)
                \/ isVerbTenseError(text, correctedText)
        THEN "grammar_tense_verb"
        ELSE IF isWordChoiceError(text, correctedText) THEN "vocabulary_word_choice"
        ELSE IF IncludesWord(feedbackLower, "article") THEN "prepositions_articles"
        ELSE IF IncludesWord(feedbackLower, "preposition") THEN "prepositions_articles"
        ELSE IF \/ Includes(matchedPattern, <<"smoother">>)
                \/ Includes(matchedPattern, <<"natural">>)
                \/ Includes(feedbackLower, <<"more", "natural">>)
                \/ Includes(feedbackLower, <<"sounds", "better">>)
        THEN "fluency_naturalness"
        ELSE "grammar_sentence_structure"

DocumentedCategoryOf ==
    [text \in ClassifyTexts, reply \in ClassifyReplies |->
        DocumentedCategory(text, reply.feedback)]

\* C22: the category of a turn classified from the feedback text is the
\* first that applies in the documented order; in particular, the turn of
\* "i did the breakfast" answered 'you could say "I made the breakfast."
\* mind the article' is a word-choice turn
C22_CategoryInDocumentedOrder ==
    [][\A r \in Requests, reply \in ClassifyReplies :
          Extracted(r, reply)
          => /\ TurnAfter(r).sentenceStatus = "has_errors"
             /\ TurnAfter(r).grammarCategory = DocumentedCategoryOf[req[r].text, reply]]_vars

\* an entry of the reply's mistake list lacks its original or its corrected
\* fragment
Malformed(reply) ==
    \E i \in 1..Len(reply.mistakes) :
        reply.mistakes[i].original_text = <<>> \/ reply.mistakes[i].corrected_text = <<>>

\* C23: when an entry of the reply's mistake list lacks one of its
\* fragments, the list is not used: with a correction-indicator phrase in
\* the feedback the turn has errors and its one mistake holds the user's
\* text and the fragment extracted from the feedback (or the placeholder),
\* and without such a phrase the turn has no mistake
C23_MalformedFallsThrough ==
    [][\A r \in Requests, reply \in ClassifyReplies :
          Answered(r, reply) /\ ~reply.failed /\ Malformed(reply)
          => LET turn == TurnAfter(r)
             IN  IF PhraseFound[reply]
                 THEN /\ turn.sentenceStatus = "has_errors"
                      /\ Len(turn.mistakes) = 1
                      /\ turn.mistakes[1].original_text = req[r].text
                      /\ turn.mistakes[1].corrected_text =
                            (IF CascadeFragment[reply] # <<>> THEN CascadeFragment[reply]
                             ELSE <<"See AI suggestion in the response">>)
                 ELSE turn.mistakes = <<>>]_vars

\* C24: a chat response whose turn has the verdict has_errors, or was
\* counted incorrect, lists at least one mistake (the response has no field
\* that could carry a reason for a missing mistake)
C24_ErroneousTurnHasMistake ==
    /\ lastResp.kind = "chat"
    /\ lastResp.code = 200
    /\ (lastResp.turn.sentenceStatus = "has_errors" \/ lastResp.turn.countsAsIncorrect)
    => Len(lastResp.turn.mistakes) >= 1

\* C25: when the reply's mistake list is not empty and each entry has both
\* fragments, the verdict of the turn is has_errors, whatever sentence
\* status the reply gave
C25_StructuredIsHasErrors ==
    [][\A r \in Requests, reply \in ClassifyReplies :
          /\ Answered(r, reply)
          /\ ~reply.failed
          /\ Len(reply.mistakes) > 0
          /\ ~Malformed(reply)
          => TurnAfter(r).sentenceStatus = "has_errors"]_vars

ActorKind ==
    IF \E r \in Requests : req'[r] # req[r]
    THEN LET r == CHOOSE x \in Requests : req'[x] # req[x]
         IN  IF req'[r].kind # "none" THEN req'[r].kind ELSE req[r].kind
    ELSE lastResp'.kind

\* sequence a is a prefix of sequence b
IsPrefix(a, b) == Len(a) <= Len(b) /\ SubSeq(b, 1, Len(a)) = a

\* C27: while a user's session is active, every step other than that user's
\* own start and end requests leaves the conversation history a prefix of
\* the history after the step
C27_HistoryAppendOnly ==
    [][\A u \in Users :
          /\ sessionState[u] = "Active"
          /\ sessionState'[u] = "Active"
          /\ ~(Actor = u /\ ActorKind \in {"start", "end"})
          => IsPrefix(aiEngine.conversationHistory, aiEngine'.conversationHistory)]_vars

\* the band of a sub-score
Band(value) ==
    IF value >= 80 THEN "excellent"
    ELSE IF value >= 60 THEN "developing"
    ELSE "needs attention"

\* C28: in a report the feedback sentence of each sub-score is the one of
\* its band, and the suggestions differ from those of a report whose
\* grammar (or fluency) sub-score lies in another band
C28_ReportByThresholds ==
    feedbackEngine.report # NoReport
    => LET report == feedbackEngine.report
           grammar == report.grammarScore
           fluency == report.fluencyScore
       IN  /\ report.feedback[1] =
                 (CASE Band(grammar) = "excellent" -> "Excellent grammar usage!"
                    [] Band(grammar) = "developing" -> "Good grammar with some minor errors."
                    [] OTHER -> "Pay more attention to grammar rules.")
           /\ report.feedback[2] =
                 (CASE Band(fluency) = "excellent" -> "You speak fluently and naturally!"
                    [] Band(fluency) = "developing" -> "Your fluency is developing well."
                    [] OTHER -> "Try to reduce hesitations for better fluency.")
           /\ \A value \in 0..100 :
                 Band(value) # Band(grammar)
                 => generateSuggestions(value, fluency) # report.suggestions
           /\ \A value \in 0..100 :
                 Band(value) # Band(fluency)
                 => generateSuggestions(grammar, value) # report.suggestions

\* C29: in every state the server's incorrect counter is at most its total
\* counter
C29_IncorrectAtMostTotal == serverIncorrectCount <= serverMessageCount

\* the end request of user u arrives in this step: finalScore is computed
\* from the counters
EndArrives(u) == nreq' = nreq + 1 /\ ActorKind = "end" /\ Actor = u

\* the score the end request that arrives in this step computes
FinalScoreAfter ==
    IF \E r \in Requests : req'[r] # req[r]
    THEN req'[CHOOSE r \in Requests : req'[r] # req[r]].score
    ELSE lastResp'.score

\* C30: when a user's end request computes the final score, no turn of that
\* user has been counted in the total while its classification is still to
\* come: the score is computed from counters that hold every recorded turn
\* together with its verdict
C30_FinalScoreCoversEveryTurn ==
    [][\A u \in Users :
          EndArrives(u)
          => /\ FinalScoreAfter = Score(serverMessageCount, serverIncorrectCount)
             /\ \A r \in Requests :
                   ~(req[r].kind = "chat" /\ req[r].user = u
                        /\ req[r].pc \in {"chatIncr", "chatAI"})]_vars

\* the conversation that was current when the turn of request r was
\* submitted, NULL when there was none: it is held by a request that waits
\* for its AI call
SubmittedUnder(r) == req[r].conv

\* C31: when the AI call of a turn submitted under a conversation returns,
\* the conversation under which the handler goes on to persist the turn's
\* feedback record and mistakes is the one that was current when the turn
\* was submitted
C31_PersistedUnderSubmissionConversation ==
    [][\A r \in Requests :
          /\ req[r].pc = "chatAI"
          /\ Truthy(SubmittedUnder(r))
          /\ req'[r].pc \in {"chatFeedback", "chatMistake"}
          => req'[r].conv = SubmittedUnder(r)]_vars

\* C32: when the classification of a turn increments the incorrect counter,
\* the verdict of the turn, which the response reports as sentence_status,
\* is has_errors, and so is the status of the turn's feedback record
C32_CountedIncorrectIsHasErrors ==
    [][\A r \in Requests :
          /\ Classified(r)
          /\ serverIncorrectCount' = serverIncorrectCount + 1
          => /\ TurnAfter(r).sentenceStatus = "has_errors"
             /\ FeedbackRow([user |-> req[r].user, turn |-> TurnAfter(r)],
                            NULL).sentence_status = "has_errors"]_vars

\* C33: when the UPDATE of complete succeeds for the conversation of an end
\* request, the overall score stored for the conversation is the final score
\* the request computed from the counters, a final score of 0 included
C33_StoredScoreIsFinalScore ==
    [][\A r \in Requests :
          /\ req[r].pc = "endComplete"
          /\ req'[r].pc = "endDuration"
          => /\ mysql'.conversations[req[r].conv].status = "completed"
             /\ mysql'.conversations[req[r].conv].overall_score = req[r].score]_vars

\* an end request of the owner of conversation c is being processed, and it
\* arrived when c existed: conversation ids grow, and the request holds the
\* id of the conversation that was current when it arrived
EndIssued(c) ==
    \E r \in Requests :
        /\ req[r].kind = "end" /\ req[r].pc # "idle"
        /\ req[r].user = mysql.conversations[c].user_id
        /\ req[r].conv >= c

\* C34: a conversation that is 'active' while an end request its owner
\* issued after the conversation's creation is being processed is eventually
\* 'completed', unless a persistence call fails
C34_EndedConversationCompletes ==
    \A c \in 1..MaxDbRequests :
        (/\ c \in DOMAIN mysql.conversations
         /\ mysql.conversations[c].status = "active"
         /\ EndIssued(c))
        ~> (\/ failures > 0
            \/ /\ c \in DOMAIN mysql.conversations
               /\ mysql.conversations[c].status = "completed")

\* C35: the controller records only while it has a current session, and its
\* conversation context is null exactly when it has no current session
C35_RecordingNeedsSession ==
    /\ sessionController.isRecording => sessionController.currentSession # NULL
    /\ sessionController.conversationContext # NoContext
           <=> sessionController.currentSession # NULL

\* the controller records in its second session, for which audio was
\* processed: the first session was ended
C35_Witness ==
    /\ sessionController.isRecording
    /\ sessionController.currentSession = 2
    /\ sessionController.conversationContext.sessionId = 2
    /\ Len(feedbackEngine.grammarScores) > 0
    /\ feedbackEngine.report # NoReport

\* C36: the token store and the logged-in-users map hold the same tokens,
\* and each token they hold belongs to the same user id in both
C36_TokenMapsAgree ==
    \A token \in Tokens : tokenStore[token] = loggedInUsers[token]

\* both users are logged in, and a logout request has just deleted a token
C36_Witness ==
    /\ lastResp.kind = "logout"
    /\ \E t1, t2, t3 \in Tokens :
          /\ tokenStore[t1] = 1 /\ loggedInUsers[t1] = 1
          /\ tokenStore[t2] = 2 /\ loggedInUsers[t2] = 2
          /\ tokenStore[t3] = NULL /\ loggedInUsers[t3] = NULL

\* C37: a topic that deleteTopic has deleted, and that no createTopic has
\* stored anew since, is not among the topics getAvailableTopics returns
C37_DeletedStaysUnavailable ==
    \A topicId \in deletedTopics : topicId \notin getAvailableTopics(database)

====
